---- MODULE Spec2Model ----
(***************************************************************************)
(* A model of the bsatk archive library (Archive, Folder): the bulk        *)
(* extraction pipeline of Archive::extractAll with its reader thread,      *)
(* extractor thread and controlling thread, the header reader, and the     *)
(* older-layout reader and writer.                                          *)
(***************************************************************************)
EXTENDS Integers, Sequences, FiniteSets, TLC

(***************************************************************************)
(* Bounds of the model.                                                    *)
(***************************************************************************)
\* the largest number of files of an archive handed to extractAll
MaxFiles == 5
\* the number of queue slots.  The source starts the queue-free semaphore at
\* 100 (bsaarchive.cpp:1129); the model scales the count down so that a full
\* queue, and a reader blocked on it, are reached with MaxFiles files.  No
\* step of the pipeline depends on the value other than through the semaphore.
BufferBound == 2

(***************************************************************************)
(* Archive types and flags (bsatypes.h, bsaarchive.h).                     *)
(***************************************************************************)
TYPE_MORROWIND == "TYPE_MORROWIND"
TYPE_OBLIVION == "TYPE_OBLIVION"
TYPE_FALLOUT3 == "TYPE_FALLOUT3"
TYPE_SKYRIMSE == "TYPE_SKYRIMSE"
TYPE_FALLOUT4 == "TYPE_FALLOUT4"
TYPE_STARFIELD == "TYPE_STARFIELD"
TYPE_STARFIELD_LZ4_TEXTURE == "TYPE_STARFIELD_LZ4_TEXTURE"

FLAG_HASDIRNAMES == 1
FLAG_HASFILENAMES == 2
FLAG_DEFAULTCOMPRESSED == 4
FLAG_NAMEPREFIXED == 256

\* bit test on a flags word: (flags & bit) != 0, bit a power of two
HasFlag(flags, bit) == (flags \div bit) % 2 = 1

VARIABLES
  \* ---- the archive object
  m_Type,          \* Archive::m_Type
  m_ArchiveFlags,  \* Archive::m_ArchiveFlags
  files,           \* the File records of the tree, in the order collectFiles gives
  srcData,         \* what the source archive holds at each file's data offset
  \* ---- extractAll's arguments and the output directory
  overwrite,       \* the overwrite argument
  outDir,          \* per file: "absent", "old" (there before the call) or "written"
  \* ---- extractAll's locals shared with the two threads
  fileList,        \* the sorted vector of files (ids into files)
  buffers,         \* std::queue<FileInfo>
  bufferCount,     \* semaphore: items ready
  queueFree,       \* semaphore: free slots
  filesDone,
  \* ---- reader thread (Archive::readFiles)
  readerPc, begin, readerInfo, readerIntr,
  \* ---- extractor thread (Archive::extractFiles)
  extractPc, extI, extractInfo, extractIntr,
  \* ---- controlling thread (Archive::extractAll)
  mainPc, readerDone, extractDone, canceled,
  seenDone,        \* the value of filesDone the controlling thread read last
  reported,        \* the percentage of the last progress call, -1 before the first
  \* ---- history, for the properties only
  filesAtCall,     \* files as they were when extractAll was called
  enqueued,        \* ids in the order the reader pushed them
  dequeued,        \* ids in the order the extractor popped them
  readerIntrCount, \* calls of readerThread.interrupt()
  mainPosts,       \* bufferCount.post() calls of the controlling thread (saturating)
  doneAtCancel,    \* files written when the reader's interruption was requested, -1 before
  \* ---- reading and writing archive files (Archive::read, Archive::write)
  disk,            \* the bytes of the archive file read and of the file written
  testHashes,      \* the testHashes argument of read
  build,           \* what this build does where the code's behaviour is undefined
  ioPc,            \* "fresh", "read", "written" or "reread"
  header,          \* what readHeader returned or threw, for the last read
  result,          \* what the last read or write returned, or how it was left
  tree,            \* the folder tree of the archive object
  firstRead,       \* the tree as the first read left it
  extractedFile,   \* Archive::extract's file argument and whether its output opened
  inserted         \* the insertions made into the tree, oldest first

archVars == <<m_Type, m_ArchiveFlags, files, srcData>>
outVars == <<overwrite, outDir>>
sharedVars == <<fileList, buffers, bufferCount, queueFree, filesDone>>
readerVars == <<readerPc, begin, readerInfo, readerIntr>>
extractVars == <<extractPc, extI, extractInfo, extractIntr>>
mainVars == <<mainPc, readerDone, extractDone, canceled, seenDone, reported>>
histVars == <<filesAtCall, enqueued, dequeued, readerIntrCount, mainPosts, doneAtCancel>>
ioVars ==
  <<disk, testHashes, build, ioPc, header, result, tree, firstRead, extractedFile, inserted>>
pipeVars == <<files, srcData, outVars, sharedVars, readerVars, extractVars, mainVars, histVars>>
vars == <<archVars, outVars, sharedVars, readerVars, extractVars, mainVars, histVars, ioVars>>

(***************************************************************************)
(* Helpers on sequences.                                                   *)
(***************************************************************************)
Range(s) == {s[i] : i \in DOMAIN s}

RECURSIVE SumSeq(_)
SumSeq(s) == IF s = <<>> THEN 0 ELSE Head(s) + SumSeq(Tail(s))

IsPrefix(s, t) == Len(s) <= Len(t) /\ SubSeq(t, 1, Len(s)) = s

(***************************************************************************)
(* Archive predicates.                                                     *)
(***************************************************************************)
defaultCompressed == HasFlag(m_ArchiveFlags, FLAG_DEFAULTCOMPRESSED)

namePrefixed == m_Type # TYPE_OBLIVION /\ HasFlag(m_ArchiveFlags, FLAG_NAMEPREFIXED)

\* the three newer-layout (BTDX) types the extractors branch on
IsBA2Type(t) == t \in {TYPE_FALLOUT4, TYPE_STARFIELD, TYPE_STARFIELD_LZ4_TEXTURE}

compressed(f) ==
  IF m_Type # TYPE_FALLOUT4
  THEN f.m_ToggleCompressed # defaultCompressed
  ELSE f.m_FileSize > 0

(***************************************************************************)
(* The archives handed to extractAll: the tree's File records, in the      *)
(* order Folder::collectFiles enumerates them, and what the source archive *)
(* holds at each file's data offset (the length byte of the name prefix    *)
(* and, for a SkyrimSE compressed entry, the 4-byte uncompressed size).    *)
(***************************************************************************)
\* archives of up to MaxShuffled files are enumerated in several orders
MaxShuffled == 3

FileRec(size, usize, off, chunks, toggle) ==
  [m_FileSize |-> size, m_UncompressedFileSize |-> usize, m_DataOffset |-> off,
   m_TextureChunks |-> chunks, m_ToggleCompressed |-> toggle]

DataRec(prefixLen, storedSize) == [prefixLen |-> prefixLen, storedSize |-> storedSize]

Chunk(packed, unpacked) == [packedSize |-> packed, unpackedSize |-> unpacked]

Archive(type, flags, fs, ds) == [type |-> type, flags |-> flags, files |-> fs, data |-> ds]

\* the orders in which a tree may enumerate n files laid out at offsets 1..n:
\* ascending, descending, rotated, and two files sharing an offset
OffsetOrders(n) ==
  IF n <= MaxShuffled
  THEN { [i \in 1..n |-> i], [i \in 1..n |-> n + 1 - i], [i \in 1..n |-> (i % n) + 1],
         [i \in 1..n |-> IF i = 1 THEN n ELSE i] }
  ELSE { [i \in 1..n |-> i] }

PlainArchivesOf(n) ==
  { Archive(TYPE_FALLOUT3, FLAG_HASDIRNAMES + FLAG_HASFILENAMES,
            [i \in 1..n |-> FileRec(2, 0, o[i], <<>>, FALSE)],
            [i \in 1..n |-> DataRec(0, 0)]) : o \in OffsetOrders(n) }

\* name-prefixed archives: a prefix of 1 character leaves payload, a prefix
\* of 3 characters is not shorter than the stored size of 3
PrefixedArchivesOf(type, n) ==
  { Archive(type, FLAG_HASDIRNAMES + FLAG_HASFILENAMES + FLAG_NAMEPREFIXED,
            [i \in 1..n |-> FileRec(3, 0, i, <<>>, FALSE)],
            [i \in 1..n |-> DataRec(p[i], 0)]) : p \in [1..n -> {1, 3}] }

SkyrimSEArchives ==
  { Archive(TYPE_SKYRIMSE, FLAG_HASDIRNAMES + FLAG_HASFILENAMES + FLAG_DEFAULTCOMPRESSED,
            <<FileRec(6, 0, 1, <<>>, t)>>, <<DataRec(0, 7)>>) : t \in BOOLEAN }

BA2Archives ==
  { Archive(t, FLAG_HASDIRNAMES + FLAG_HASFILENAMES, <<f>>, <<DataRec(0, 0)>>) :
      t \in {TYPE_FALLOUT4, TYPE_STARFIELD_LZ4_TEXTURE},
      f \in { FileRec(2, 5, 1, <<>>, FALSE),                       \* GNRL, zlib
              FileRec(0, 5, 1, <<>>, FALSE),                       \* GNRL, raw
              FileRec(2, 3, 1, <<Chunk(2, 3), Chunk(0, 4)>>, FALSE) } } \* DX10

Archives ==
  UNION {PlainArchivesOf(n) : n \in 1..MaxFiles}
  \cup PrefixedArchivesOf(TYPE_FALLOUT3, 1) \cup PrefixedArchivesOf(TYPE_FALLOUT3, 2)
  \cup PrefixedArchivesOf(TYPE_OBLIVION, 1)
  \cup SkyrimSEArchives \cup BA2Archives


(***************************************************************************)
(* Archive::readFiles, the part between queueFree.wait() and the push:     *)
(* what the reader does with one file.  It gives whether the file is       *)
(* skipped (continue), the File record as the reader leaves it, and the    *)
(* length of the data buffer of the FileInfo.                              *)
(***************************************************************************)
\* fileInfo.file->m_UncompressedFileSize after the chunk loop: the unpacked
\* sizes of the chunks stored packed
RECURSIVE PackedChunksUnpackedSize(_)
PackedChunksUnpackedSize(chunks) ==
  IF chunks = <<>> THEN 0
  ELSE (IF Head(chunks).packedSize > 0 THEN Head(chunks).unpackedSize ELSE 0)
       + PackedChunksUnpackedSize(Tail(chunks))

RECURSIVE TotalUnpackedSize(_)
TotalUnpackedSize(chunks) ==
  IF chunks = <<>> THEN 0
  ELSE Head(chunks).unpackedSize + TotalUnpackedSize(Tail(chunks))

ReadOlderFile(f, d) ==
  LET skip == namePrefixed /\ f.m_FileSize <= d.prefixLen
      size1 == IF namePrefixed THEN f.m_FileSize - (d.prefixLen + 1) ELSE f.m_FileSize
      lz4 == m_Type = TYPE_SKYRIMSE /\ compressed(f)
      f1 == IF lz4 THEN [f EXCEPT !.m_UncompressedFileSize = d.storedSize] ELSE f
      size2 == IF lz4 THEN size1 - 4 ELSE size1
  IN IF skip
     THEN [skip |-> TRUE, file |-> f, size |-> 0]
     ELSE [skip |-> FALSE, file |-> f1,
           size |-> IF f.m_TextureChunks = <<>> THEN size2 ELSE 0]

ReadBA2File(f) ==
  IF f.m_TextureChunks = <<>>
  THEN [skip |-> FALSE, file |-> f,
        size |-> IF f.m_FileSize = 0 THEN f.m_UncompressedFileSize ELSE f.m_FileSize]
  ELSE [skip |-> FALSE,
        file |-> [f EXCEPT !.m_UncompressedFileSize =
                               PackedChunksUnpackedSize(f.m_TextureChunks),
                           !.m_FileSize = 0],
        size |-> TotalUnpackedSize(f.m_TextureChunks)]

ReadFile(f, d) == IF IsBA2Type(m_Type) THEN ReadBA2File(f) ELSE ReadOlderFile(f, d)

(***************************************************************************)
(* Archive::extractAll up to the start of the two threads.                 *)
(***************************************************************************)
\* std::sort(fileList.begin(), fileList.end(), ByOffset): the comparator
\* orders by m_DataOffset
ByOffset(a, b) == a.m_DataOffset < b.m_DataOffset

IsPermutationOfFiles(l) ==
  /\ Len(l) = Len(files)
  /\ Range(l) = DOMAIN files

\* the vectors std::sort may leave: no element ordered before an earlier one
FileListUnsorted == { [i \in DOMAIN files |-> i] }

FileListAfterSort ==
  { l \in [DOMAIN files -> DOMAIN files] :
      /\ IsPermutationOfFiles(l)
      /\ \A i, j \in DOMAIN l : i < j => ~ByOffset(files[l[j]], files[l[i]]) }

\* boost::interprocess::interprocess_semaphore queueFree(100), scaled
QueueFreeInit == BufferBound

\* the semaphores' counts stay below this in the model: the controlling
\* thread's posts after a cancellation saturate here
SemMax == MaxFiles + 2

SemPost(s) == IF s < SemMax THEN s + 1 ELSE s

NoInfo == [file |-> 0, size |-> 0]


\* files written by the extractor so far
WrittenCount == Cardinality({i \in DOMAIN outDir : outDir[i] = "written"})

PipelineIdle ==
  /\ fileList = <<>> /\ buffers = <<>> /\ bufferCount = 0 /\ queueFree = 0
  /\ filesDone = 0
  /\ readerPc = "idle" /\ begin = 1 /\ readerInfo = NoInfo /\ readerIntr = FALSE
  /\ extractPc = "idle" /\ extI = 0 /\ extractInfo = NoInfo /\ extractIntr = FALSE
  /\ mainPc = "idle" /\ readerDone = FALSE /\ extractDone = FALSE /\ canceled = FALSE
  /\ seenDone = 0 /\ reported = -1
  /\ enqueued = <<>> /\ dequeued = <<>> /\ readerIntrCount = 0 /\ mainPosts = 0
  /\ doneAtCancel = -1

IoIdle ==
  /\ disk = <<>> /\ testHashes = FALSE /\ build = "benign" /\ ioPc = "fresh"
  /\ header = <<>>
  /\ result = "none" /\ tree = <<>> /\ firstRead = <<>> /\ extractedFile = <<>>
  /\ inserted = <<>>

\* an archive object after a successful read, and an output directory in
\* which the first file's target may already exist
InitWith(as) ==
  /\ \E a \in as :
       /\ m_Type = a.type
       /\ m_ArchiveFlags = a.flags
       /\ files = a.files
       /\ srcData = a.data
       /\ filesAtCall = a.files
       /\ \E old \in {{}, {1}} :
            outDir = [i \in DOMAIN a.files |-> IF i \in old THEN "old" ELSE "absent"]
  /\ overwrite = TRUE
  /\ PipelineIdle
  /\ IoIdle

Init == InitWith(Archives)

ExtractAllStart ==
  /\ mainPc = "idle"
  /\ \E ow \in BOOLEAN : overwrite' = ow
  /\ \E l \in FileListAfterSort : fileList' = l
  /\ buffers' = <<>>
  /\ filesDone' = 0
  /\ bufferCount' = 0
  /\ queueFree' = QueueFreeInit
  \* m_File.seekg((*(fileList.begin()))->m_DataOffset): undefined on an empty
  \* list; where that faults, no thread is started
  /\ IF files = <<>> /\ build = "fault"
     THEN /\ mainPc' = "fault"
          /\ UNCHANGED <<readerPc, extractPc>>
     ELSE /\ mainPc' = "top"
          /\ readerPc' = "check"
          /\ extractPc' = "wait"
  /\ begin' = 1
  /\ extI' = 0
  /\ seenDone' = 0
  /\ reported' = -1
  /\ filesAtCall' = files
  /\ UNCHANGED ioVars
  /\ UNCHANGED <<archVars, outDir, readerInfo, readerIntr, extractInfo, extractIntr,
                 readerDone, extractDone, canceled,
                 enqueued, dequeued, readerIntrCount, mainPosts, doneAtCancel>>

(***************************************************************************)
(* The reader thread: Archive::readFiles.                                  *)
(***************************************************************************)
\* the loop condition: begin != end && !interruption_requested()
ReaderContinuesAlways(b, interrupted) == b <= Len(fileList)

ReaderContinues(b, interrupted) == b <= Len(fileList) /\ ~interrupted

ReaderCheck ==
  /\ readerPc = "check"
  /\ readerPc' = IF ReaderContinues(begin, readerIntr) THEN "wait" ELSE "done"
  /\ UNCHANGED ioVars
  /\ UNCHANGED <<archVars, outVars, sharedVars, begin, readerInfo, readerIntr,
                 extractVars, mainVars, histVars>>

\* queueFree.wait(), then the file is read; a skipped file goes on to the
\* next iteration without a push and without a post
ReaderWait ==
  /\ readerPc = "wait"
  /\ queueFree > 0
  /\ queueFree' = queueFree - 1
  /\ LET id == fileList[begin]
         r == ReadFile(files[id], srcData[id])
     IN /\ files' = [files EXCEPT ![id] = r.file]
        /\ IF r.skip
           THEN /\ begin' = begin + 1
                /\ readerPc' = "check"
                /\ UNCHANGED readerInfo
           ELSE /\ readerInfo' = [file |-> id, size |-> r.size]
                /\ readerPc' = "push"
                /\ UNCHANGED begin
  /\ UNCHANGED ioVars
  /\ UNCHANGED <<m_Type, m_ArchiveFlags, srcData, outVars, fileList, buffers,
                 bufferCount, filesDone, readerIntr, extractVars, mainVars, histVars>>

\* queue.push(fileInfo), under the mutex
QueuePushFront(q, info) == <<info>> \o q

QueuePush(q, info) == Append(q, info)

ReaderPush ==
  /\ readerPc = "push"
  /\ buffers' = QueuePush(buffers, readerInfo)
  /\ enqueued' = Append(enqueued, readerInfo.file)
  /\ readerPc' = "post"
  /\ UNCHANGED ioVars
  /\ UNCHANGED <<archVars, outVars, fileList, bufferCount, queueFree, filesDone,
                 begin, readerInfo, readerIntr, extractVars, mainVars,
                 filesAtCall, dequeued, readerIntrCount, mainPosts, doneAtCancel>>

ReaderPost ==
  /\ readerPc = "post"
  /\ bufferCount' = SemPost(bufferCount)
  /\ begin' = begin + 1
  /\ readerPc' = "check"
  /\ UNCHANGED ioVars
  /\ UNCHANGED <<archVars, outVars, fileList, buffers, queueFree, filesDone,
                 readerInfo, readerIntr, extractVars, mainVars, histVars>>

Reader == ReaderCheck \/ ReaderWait \/ ReaderPush \/ ReaderPost

(***************************************************************************)
(* The extractor thread: Archive::extractFiles.                            *)
(***************************************************************************)
\* for (i < totalFiles) { bufferCount.wait();
ExtractWait ==
  /\ extractPc = "wait"
  /\ IF extI < Len(fileList)
     THEN /\ bufferCount > 0
          /\ bufferCount' = bufferCount - 1
          /\ extractPc' = "intr"
     ELSE /\ extractPc' = "done"
          /\ UNCHANGED bufferCount
  /\ UNCHANGED ioVars
  /\ UNCHANGED <<archVars, outVars, fileList, buffers, queueFree, filesDone,
                 readerVars, extI, extractInfo, extractIntr, mainVars, histVars>>

ExtractorBreaksNever(interrupted) == FALSE

\* if (interruption_requested()) break;
ExtractorBreaks(interrupted) == interrupted

ExtractCheckInterrupt ==
  /\ extractPc = "intr"
  /\ extractPc' = IF ExtractorBreaks(extractIntr) THEN "done" ELSE "pop"
  /\ UNCHANGED ioVars
  /\ UNCHANGED <<archVars, outVars, sharedVars, readerVars, extI, extractInfo,
                 extractIntr, mainVars, histVars>>

\* fileInfo = queue.front(); ++filesDone; queue.pop(); under the mutex.
\* front() of an empty queue is undefined: the thread is taken to fault.
ExtractPop ==
  /\ extractPc = "pop"
  /\ IF buffers = <<>>
     THEN /\ extractPc' = "fault"
          /\ UNCHANGED <<buffers, filesDone, extractInfo, dequeued>>
     ELSE /\ extractInfo' = Head(buffers)
          /\ filesDone' = filesDone + 1
          /\ buffers' = Tail(buffers)
          /\ dequeued' = Append(dequeued, Head(buffers).file)
          /\ extractPc' = "post"
  /\ UNCHANGED ioVars
  /\ UNCHANGED <<archVars, outVars, fileList, bufferCount, queueFree, readerVars,
                 extI, extractIntr, mainVars,
                 filesAtCall, enqueued, readerIntrCount, mainPosts, doneAtCancel>>

\* queueFree.post()
ExtractorFreesTwoSlots(q) == q + 2

ExtractorFreesSlot(q) == q + 1

ExtractPost ==
  /\ extractPc = "post"
  /\ queueFree' = ExtractorFreesSlot(queueFree)
  /\ extractPc' = "write"
  /\ UNCHANGED ioVars
  /\ UNCHANGED <<archVars, outVars, fileList, buffers, bufferCount, filesDone,
                 readerVars, extI, extractInfo, extractIntr, mainVars, histVars>>

\* the rest of the iteration: the target is skipped when it exists and
\* overwrite is false, and is otherwise opened with trunc and written
SkipsNoTarget(ow, target) == FALSE

\* if (!overwrite && fileExists(fileName)) continue;
SkipsTarget(ow, target) == ~ow /\ target # "absent"

ExtractWrite ==
  /\ extractPc = "write"
  /\ outDir' = IF SkipsTarget(overwrite, outDir[extractInfo.file])
               THEN outDir
               ELSE [outDir EXCEPT ![extractInfo.file] = "written"]
  /\ extI' = extI + 1
  /\ extractPc' = "wait"
  /\ UNCHANGED ioVars
  /\ UNCHANGED <<archVars, overwrite, sharedVars, readerVars, extractInfo,
                 extractIntr, mainVars, histVars>>

Extractor ==
  ExtractWait \/ ExtractCheckInterrupt \/ ExtractPop \/ ExtractPost \/ ExtractWrite

(***************************************************************************)
(* The controlling thread: the polling loop of Archive::extractAll.        *)
(***************************************************************************)
\* if (readerDone) { extractDone = extractThread.timed_join(...); ... }
JoinsExtractorAlways(rd) == TRUE

JoinsExtractor(rd) == rd

\* while (!readerDone || !extractDone) {
\*   if (!readerDone) readerDone = readerThread.timed_join(100ms);
MainJoinReader ==
  /\ mainPc = "top"
  /\ ~(readerDone /\ extractDone)
  /\ LET rd == IF ~readerDone THEN readerPc = "done" ELSE readerDone
     IN /\ readerDone' = rd
        /\ mainPc' = IF JoinsExtractor(rd) THEN "joinExtract" ELSE "progress"
  /\ UNCHANGED ioVars
  /\ UNCHANGED <<archVars, outVars, sharedVars, readerVars, extractVars,
                 extractDone, canceled, seenDone, reported, histVars>>

MainJoinExtract ==
  /\ mainPc = "joinExtract"
  /\ extractDone' = (extractPc = "done")
  /\ mainPc' = IF canceled THEN "intrExtract" ELSE "progress"
  /\ UNCHANGED ioVars
  /\ UNCHANGED <<archVars, outVars, sharedVars, readerVars, extractVars,
                 readerDone, canceled, seenDone, reported, histVars>>

\* extractThread.interrupt();
MainInterruptExtract ==
  /\ mainPc = "intrExtract"
  /\ extractIntr' = TRUE
  /\ mainPc' = "post"
  /\ UNCHANGED ioVars
  /\ UNCHANGED <<archVars, outVars, sharedVars, readerVars, extractPc, extI,
                 extractInfo, readerDone, extractDone, canceled, seenDone, reported,
                 histVars>>

\* bufferCount.post();
MainPost ==
  /\ mainPc = "post"
  /\ bufferCount' = SemPost(bufferCount)
  /\ mainPosts' = SemPost(mainPosts)
  /\ mainPc' = "progress"
  /\ UNCHANGED ioVars
  /\ UNCHANGED <<archVars, outVars, fileList, buffers, queueFree, filesDone,
                 readerVars, extractVars, readerDone, extractDone, canceled,
                 seenDone, reported,
                 filesAtCall, enqueued, dequeued, readerIntrCount, doneAtCancel>>

\* if (!progress(...) && !canceled) { readerThread.interrupt(); canceled = true; }
InterruptsReaderAgain(goOn, c) == ~goOn

InterruptsReader(goOn, c) == ~goOn /\ ~c

\* filesDone is written by the extractor and read here without a lock: the
\* controlling thread sees the current value or an older one, never an older
\* one than it saw before, and the current one once the extractor is joined
FilesDoneSeen ==
  IF extractDone THEN {filesDone} ELSE {v \in 0..filesDone : v >= seenDone}

\* (filesDone * 100) / static_cast<int>(fileList.size())
Percentage(done, total) == (done * 100) \div total

\* what the division by zero and the read of fileList[0] of an empty file
\* list give: a trap, or some quotient
UndefinedQuotients == {0, 100, 101}

\* progress((filesDone * 100) / static_cast<int>(fileList.size()),
\*          fileList[index]->getName())
ProgressResults(v) ==
  IF fileList = <<>>
  THEN {[fault |-> TRUE, value |-> 0]}
       \cup {[fault |-> FALSE, value |-> q] : q \in UndefinedQuotients}
  ELSE {[fault |-> FALSE, value |-> Percentage(v, Len(fileList))]}

MainProgress ==
  /\ mainPc = "progress"
  /\ \E v \in FilesDoneSeen : \E q \in ProgressResults(v) :
       IF q.fault
       THEN /\ mainPc' = "fault"
            /\ UNCHANGED <<seenDone, reported, readerIntr, canceled,
                           readerIntrCount, doneAtCancel>>
       ELSE /\ seenDone' = v
            /\ reported' = q.value
            /\ mainPc' = "top"
            /\ \E goOn \in BOOLEAN :
                 IF InterruptsReader(goOn, canceled)
                 THEN /\ readerIntr' = TRUE
                      /\ canceled' = TRUE
                      /\ readerIntrCount' = readerIntrCount + 1
                      /\ doneAtCancel' =
                           IF doneAtCancel = -1 THEN WrittenCount ELSE doneAtCancel
                 ELSE UNCHANGED <<readerIntr, canceled, readerIntrCount, doneAtCancel>>
  /\ UNCHANGED ioVars
  /\ UNCHANGED <<archVars, outVars, sharedVars, readerPc, begin, readerInfo,
                 extractVars, readerDone, extractDone,
                 filesAtCall, enqueued, dequeued, mainPosts>>

MainReturn ==
  /\ mainPc = "top"
  /\ readerDone /\ extractDone
  /\ mainPc' = "returned"
  /\ UNCHANGED ioVars
  /\ UNCHANGED <<archVars, outVars, sharedVars, readerVars, extractVars,
                 readerDone, extractDone, canceled, seenDone, reported, histVars>>

Main ==
  MainJoinReader \/ MainJoinExtract \/ MainInterruptExtract \/ MainPost
  \/ MainProgress \/ MainReturn

Next == ExtractAllStart \/ Reader \/ Extractor \/ Main

Spec == Init /\ [][Next]_vars


(***************************************************************************)
(* The pipeline under fair scheduling of the three threads, on the small   *)
(* archives: each thread that can take a step eventually takes one.        *)
(***************************************************************************)
FairArchives ==
  PlainArchivesOf(1) \cup PlainArchivesOf(2)
  \cup PrefixedArchivesOf(TYPE_FALLOUT3, 1) \cup PrefixedArchivesOf(TYPE_FALLOUT3, 2)

FairInit == InitWith(FairArchives)

FairSpec ==
  /\ FairInit
  /\ [][Next]_vars
  /\ WF_vars(Reader)
  /\ WF_vars(Extractor)
  /\ WF_vars(Main)

\* the same, on the archives in which the reader skips no file
NoSkipArchives == PlainArchivesOf(1) \cup PlainArchivesOf(2) \cup PlainArchivesOf(3)

NoSkipFairSpec ==
  /\ InitWith(NoSkipArchives)
  /\ [][Next]_vars
  /\ WF_vars(Reader)
  /\ WF_vars(Extractor)
  /\ WF_vars(Main)

(***************************************************************************)
(* Properties of the extraction pipeline.                                  *)
(***************************************************************************)
Running == mainPc \notin {"idle", "returned"}

\* C1: every call of extractAll on an archive with at least one file
\* eventually returns under fair scheduling, whatever the progress callback
\* answers, also when the reader skips a file.
C1_ExtractAllReturns == (mainPc = "top") ~> (mainPc = "returned")

\* C2: in every interleaving the FIFO of work items never holds more items
\* than the initial value of the queue-free semaphore.
C2_QueueWithinBound == Len(buffers) <= BufferBound

\* the queue is full and the reader waits for a free slot
C2_QueueFullReaderBlocked ==
  Len(buffers) = BufferBound /\ readerPc = "wait" /\ queueFree = 0

\* C3: a false answer of the callback interrupts the reader, at most once;
\* the extractor is interrupted, and bufferCount posted by the controlling
\* thread, only after the reader was interrupted and has finished.
C3_ExtractorInterruptedAfterReader ==
  /\ readerIntrCount <= 1
  /\ canceled <=> readerIntr
  /\ canceled <=> (readerIntrCount = 1)
  /\ extractIntr => (readerIntr /\ readerPc = "done")
  /\ mainPosts > 0 => (extractIntr /\ readerPc = "done")

\* a cancelled run in which the extractor was interrupted and woken
C3_ExtractorInterrupted ==
  extractIntr /\ mainPosts > 0 /\ readerIntrCount = 1 /\ readerPc = "done"

\* files written since the reader's interruption was requested
WrittenAfterCancel == WrittenCount - doneAtCancel

\* C4 as stated: after the callback first answers false, at most
\* BufferBound further files are written.
C4_AtMostBoundAfterCancel == doneAtCancel >= 0 => WrittenAfterCancel <= BufferBound

\* C4, amended: after the reader's interruption is requested, at most
\* BufferBound + 2 further files are written: the queued items, the item the
\* extractor had dequeued and not yet written, and the item of the iteration
\* the reader had already entered.
C4_AtMostBoundPlusTwoAfterCancel ==
  doneAtCancel >= 0 => WrittenAfterCancel <= BufferBound + 2

\* a cancelled call that has returned with BufferBound + 2 files written
\* after the cancellation
C4_BoundPlusTwoReached ==
  mainPc = "returned" /\ doneAtCancel >= 0 /\ WrittenAfterCancel = BufferBound + 2

Ascending(ids) ==
  \A i, j \in DOMAIN ids :
    i < j => filesAtCall[ids[i]].m_DataOffset <= filesAtCall[ids[j]].m_DataOffset

\* C5: the extractor dequeues the files in the order the reader enqueued
\* them, and that order is ascending data offset, whatever the order in
\* which the tree enumerates the files.
C5_FifoAscendingOffset ==
  /\ IsPrefix(dequeued, enqueued)
  /\ Ascending(enqueued)
  /\ Ascending(dequeued)

\* a tree that enumerates its files out of offset order, two of them dequeued
\* while a third waits in the queue
C5_UnsortedTreeDequeued ==
  /\ Len(files) >= 3
  /\ files[1].m_DataOffset > files[2].m_DataOffset
  /\ Len(dequeued) >= 2
  /\ Len(buffers) >= 1

\* C6: extractAll leaves the tree's File records as they were when it was
\* called: stored size, uncompressed size, data offset and chunk list.
C6_TreeReadOnly == files = filesAtCall

(***************************************************************************)
(* Archive files as byte sequences.  Stream positions count from 0 as in   *)
(* the code; every multi-byte field is little-endian.                      *)
(***************************************************************************)
\* a value the model does not tell from any larger one: it is beyond every
\* position of a modelled file and is no known version number
TooBig == 256 * 256 * 256

RECURSIVE LE(_, _)
LE(n, w) == IF w = 0 THEN <<>> ELSE <<n % 256>> \o LE(n \div 256, w - 1)

RECURSIVE LEValue(_)
LEValue(bs) ==
  IF bs = <<>> THEN 0
  ELSE LET hi == LEValue(Tail(bs))
       IN IF hi >= 65536 THEN TooBig ELSE Head(bs) + 256 * hi

\* unsigned arithmetic; a wrapped difference is a huge value
USub(a, b) == IF a >= TooBig \/ a < b THEN TooBig ELSE a - b

UAdd(a, b) == IF a + b >= TooBig THEN TooBig ELSE a + b

\* the bytes a read of n bytes at position p delivers (fewer at the end)
Avail(s, p, n) ==
  IF p >= Len(s) THEN <<>>
  ELSE SubSeq(s, p + 1, IF p + n <= Len(s) THEN p + n ELSE Len(s))

\* std::fstream with exceptions(badbit): a short read sets failbit silently,
\* and every later read or seek on the failed stream does nothing
Stream(p) == [pos |-> p, fail |-> FALSE]

Failed(st) == [st EXCEPT !.fail = TRUE]

CanRead(s, st, n) == ~st.fail /\ st.pos + n <= Len(s)

seekg(st, p) == IF st.fail THEN st ELSE [st EXCEPT !.pos = p]

Skip(st, n) == seekg(st, UAdd(st.pos, n))

\* file.read(buffer, n) into a buffer whose bytes were `old`
RawRead(s, st, n, old) ==
  IF st.fail THEN [bytes |-> old, st |-> st]
  ELSE LET got == Avail(s, st.pos, n)
       IN [bytes |-> got \o SubSeq(old, Len(got) + 1, n),
           st |-> IF Len(got) = n THEN Skip(st, n) ELSE Failed(Skip(st, Len(got)))]

\* a char buffer read as a C string: the bytes before the first NUL
RECURSIVE CString(_)
CString(bs) ==
  IF bs = <<>> \/ Head(bs) = 0 THEN <<>> ELSE <<Head(bs)>> \o CString(Tail(bs))

Zeros(n) == [i \in 1..n |-> 0]

\* what a buffer from new char[n] holds before anything is read into it: any
\* bytes at all; the model draws them from a repeated pattern
Uninitialized(n, pattern) == [i \in 1..n |-> pattern[((i - 1) % Len(pattern)) + 1]]

\* char* buf = new char[n + 1]; file.read(buf, n); buf[n] = '\0'; and buf
\* taken as a C string: [str, st].  Every pattern holds a NUL, so the string
\* ends within the bytes read and one round of the pattern.
ReadCString(s, st, n, pattern) ==
  LET got == IF st.fail THEN <<>> ELSE Avail(s, st.pos, n)
      left == IF n - Len(got) < Len(pattern) THEN n - Len(got) ELSE Len(pattern)
  IN [str |-> CString(got \o Uninitialized(left, pattern) \o <<0>>),
      st |-> IF st.fail THEN st
             ELSE IF Len(got) = n THEN Skip(st, n) ELSE Failed(Skip(st, Len(got)))]

HeapPatterns == { <<0>>, <<97, 92, 98, 0>>, <<98, 0>> }

\* outcomes of undefined behaviour (dereferencing the end iterator of an
\* empty path, indexing an empty vector): the build goes on with an empty
\* value, or the process faults
UBOutcomes == {"benign", "fault"}

(***************************************************************************)
(* Strings of the format.  readBString, readZString, writeBString,         *)
(* writeZString and calculateBSAHash are declared outside the sources at   *)
(* hand; they follow the format description: BString = 1-byte length and   *)
(* the bytes, ZString = the bytes and one NUL, hash = a pure function of   *)
(* the string to eight bytes.                                              *)
(***************************************************************************)
RECURSIVE SumSeq256(_)
SumSeq256(s) == IF s = <<>> THEN 0 ELSE (Head(s) + SumSeq256(Tail(s))) % 256

calculateBSAHash(name) ==
  <<Len(name) % 256,
    IF name = <<>> THEN 0 ELSE name[1],
    IF name = <<>> THEN 0 ELSE name[Len(name)],
    SumSeq256(name), 0, 0, 0, 0>>

writeBString(str) == <<Len(str) % 256>> \o str

writeZString(str) == str \o <<0>>

\* [exc, str, st]: a short read throws
readBString(s, st) ==
  IF ~CanRead(s, st, 1) THEN [exc |-> TRUE, str |-> <<>>, st |-> Failed(st)]
  ELSE LET n == s[st.pos + 1]
       IN IF ~CanRead(s, Skip(st, 1), n)
          THEN [exc |-> TRUE, str |-> <<>>, st |-> Failed(st)]
          ELSE [exc |-> FALSE, str |-> Avail(s, st.pos + 1, n), st |-> Skip(st, 1 + n)]

\* the bytes up to the next NUL; at the end of the file the string read so
\* far, without an exception
readZString(s, st) ==
  IF st.fail \/ st.pos >= Len(s) THEN [str |-> <<>>, st |-> Failed(st)]
  ELSE LET rest == Avail(s, st.pos, Len(s))
           str == CString(rest)
       IN IF Len(str) < Len(rest)
          THEN [str |-> str, st |-> Skip(st, Len(str) + 1)]
          ELSE [str |-> str, st |-> Failed(Skip(st, Len(str)))]

(***************************************************************************)
(* std::filesystem::path as the code uses it (Windows: both '\' and '/'    *)
(* separate elements, '\' is the preferred separator).                     *)
(***************************************************************************)
IsSep(c) == c \in {92, 47}

RECURSIVE DropSeps(_)
DropSeps(p) == IF p # <<>> /\ IsSep(Head(p)) THEN DropSeps(Tail(p)) ELSE p

RECURSIVE SplitPath(_, _)
SplitPath(p, cur) ==
  IF p = <<>> THEN <<cur>>
  ELSE IF IsSep(Head(p)) THEN <<cur>> \o SplitPath(DropSeps(p), <<>>)
  ELSE SplitPath(Tail(p), Append(cur, Head(p)))

\* the elements path::begin() .. path::end() run through
PathElements(p) ==
  IF p = <<>> THEN <<>>
  ELSE IF IsSep(Head(p))
       THEN IF DropSeps(p) = <<>> THEN << <<Head(p)>> >>
            ELSE << <<Head(p)>> >> \o SplitPath(DropSeps(p), <<>>)
       ELSE SplitPath(p, <<>>)

\* remaining /= element
PathAppend(r, e) ==
  IF r = <<>> THEN e
  ELSE IF IsSep(r[Len(r)]) THEN r \o e
  ELSE r \o <<92>> \o e

RECURSIVE PathJoin(_)
PathJoin(es) ==
  IF es = <<>> THEN <<>> ELSE PathAppend(PathJoin(SubSeq(es, 1, Len(es) - 1)), es[Len(es)])

RECURSIVE LastSep(_)
LastSep(p) == IF p = <<>> THEN 0 ELSE IF IsSep(p[Len(p)]) THEN Len(p)
              ELSE LastSep(SubSeq(p, 1, Len(p) - 1))

RECURSIVE DropTrailingSeps(_)
DropTrailingSeps(p) ==
  IF Len(p) > 1 /\ IsSep(p[Len(p)]) THEN DropTrailingSeps(SubSeq(p, 1, Len(p) - 1)) ELSE p

parent_path(p) == IF LastSep(p) = 0 THEN <<>> ELSE DropTrailingSeps(SubSeq(p, 1, LastSep(p)))

filename(p) == SubSeq(p, LastSep(p) + 1, Len(p))

\* auto it = path.begin(); firstStr = it->string(); the rest joined again.
\* On an empty path begin() is end() and the dereference is undefined.
FirstAndRemaining(name, ub) ==
  IF name = <<>>
  THEN [fault |-> ub = "fault", firstStr |-> <<>>, remaining |-> <<>>]
  ELSE [fault |-> FALSE, firstStr |-> PathElements(name)[1],
        remaining |-> PathJoin(Tail(PathElements(name)))]

(***************************************************************************)
(* The folder tree.  Folder objects live in a sequence, the root folder is *)
(* object 1, m_Parent and m_SubFolders hold object numbers.                *)
(***************************************************************************)
NewFolder ==
  [m_Parent |-> 0, m_Name |-> <<>>, m_NameHash |-> calculateBSAHash(<<>>),
   m_FileCount |-> 0, m_Offset |-> TooBig, m_SubFolders |-> <<>>,
   m_SubFoldersByName |-> <<>>, m_Files |-> <<>>]

EmptyTree == <<NewFolder>>

\* a map in which no key is ever found
ContainsNever(map, key) == FALSE

Contains(map, key) == \E i \in DOMAIN map : map[i].key = key

At(map, key) == map[CHOOSE i \in DOMAIN map : map[i].key = key].value

\* the map insert without the push_back
AttachMapOnly(t, self, firstStr, id) ==
  [t EXCEPT ![self].m_SubFoldersByName = Append(@, [key |-> firstStr, value |-> id])]

\* m_SubFolders.push_back(f); m_SubFoldersByName[firstStr] = f
Attach(t, self, firstStr, id) ==
  [t EXCEPT ![self].m_SubFolders = Append(@, id),
            ![self].m_SubFoldersByName = Append(@, [key |-> firstStr, value |-> id])]

\* [t, id, fault]: the tree with the folder object in it, and its number
RECURSIVE addFolderInt(_, _, _, _)
addFolderInt(t, self, folder, ub) ==
  LET fr == FirstAndRemaining(folder.m_Name, ub)
      moved == [folder EXCEPT !.m_Name = fr.remaining]
  IN IF fr.fault THEN [t |-> t, id |-> 0, fault |-> TRUE]
     ELSE IF Contains(t[self].m_SubFoldersByName, fr.firstStr)
     THEN addFolderInt(t, At(t[self].m_SubFoldersByName, fr.firstStr), moved, ub)
     ELSE IF fr.remaining = <<>>
     THEN [t |-> Attach(Append(t, [folder EXCEPT !.m_Parent = self]), self,
                        fr.firstStr, Len(t) + 1),
           id |-> Len(t) + 1, fault |-> FALSE]
     ELSE LET dummy == Len(t) + 1
              sub == addFolderInt(
                       Append(t, [NewFolder EXCEPT !.m_Parent = self, !.m_Name = fr.firstStr]),
                       dummy, moved, ub)
          IN [sub EXCEPT !.t = Attach(sub.t, self, fr.firstStr, dummy)]

RECURSIVE addOrFindFolderInt(_, _, _, _)
addOrFindFolderInt(t, self, folder, ub) ==
  LET fr == FirstAndRemaining(folder.m_Name, ub)
      moved == [folder EXCEPT !.m_Name = fr.remaining]
  IN IF fr.fault THEN [t |-> t, id |-> 0, fault |-> TRUE]
     ELSE IF Contains(t[self].m_SubFoldersByName, fr.firstStr)
     THEN IF fr.remaining # <<>>
          THEN addOrFindFolderInt(t, At(t[self].m_SubFoldersByName, fr.firstStr), moved, ub)
          ELSE [t |-> t, id |-> At(t[self].m_SubFoldersByName, fr.firstStr), fault |-> FALSE]
     ELSE IF fr.remaining = <<>>
     THEN [t |-> Attach(Append(t, [folder EXCEPT !.m_Parent = self]), self,
                        fr.firstStr, Len(t) + 1),
           id |-> Len(t) + 1, fault |-> FALSE]
     ELSE LET dummy == Len(t) + 1
              sub == addOrFindFolderInt(
                       Append(t, [NewFolder EXCEPT !.m_Parent = self, !.m_Name = fr.firstStr]),
                       dummy, moved, ub)
          IN [sub EXCEPT !.t = Attach(sub.t, self, fr.firstStr, dummy)]

RECURSIVE getFullPath(_, _)
getFullPath(t, id) ==
  IF t[id].m_Parent # 0
  THEN LET temp == getFullPath(t, t[id].m_Parent)
       IN IF Len(temp) # 0 THEN temp \o <<92>> \o t[id].m_Name ELSE t[id].m_Name
  ELSE <<>>

\* FO4TextureHeader, the fields the extractors use
TextureHeader(height, width, mipCount, format, unknown2) ==
  [height |-> height, width |-> width, mipCount |-> mipCount, format |-> format,
   unknown2 |-> unknown2]

\* the texture header of a file that is no texture: {}
NoTextureHeader == TextureHeader(0, 0, 0, 0, 0)

\* a File object
NewFile(name, hash, size, toggle, offset, usize, texHeader, chunks) ==
  [m_Name |-> name, m_NameHash |-> hash, m_FileSize |-> size,
   m_ToggleCompressed |-> toggle, m_DataOffset |-> offset,
   m_UncompressedFileSize |-> usize, m_TextureHeader |-> texHeader,
   m_TextureChunks |-> chunks]

\* [t, id, fault]
addFolderFromFile(t, filePath, size, offset, uncompressedSize, texHeader, texChunks, ub) ==
  LET tempFolder == [NewFolder EXCEPT !.m_NameHash = calculateBSAHash(filePath),
                                      !.m_Name = parent_path(filePath)]
      file == NewFile(filename(filePath), calculateBSAHash(filename(filePath)), size,
                      FALSE, offset, uncompressedSize, texHeader, texChunks)
      Added(found) ==
        IF found.fault THEN found
        ELSE [found EXCEPT !.t = [found.t EXCEPT ![found.id].m_FileCount = @ + 1,
                                                 ![found.id].m_Files = Append(@, file)]]
  IN Added(addOrFindFolderInt(t, 1, tempFolder, ub))

RECURSIVE CountFilesOf(_, _)
RECURSIVE countFiles(_, _)
CountFilesOf(t, ids) ==
  IF ids = <<>> THEN 0 ELSE countFiles(t, Head(ids)) + CountFilesOf(t, Tail(ids))

countFiles(t, id) == CountFilesOf(t, t[id].m_SubFolders) + Len(t[id].m_Files)

\* children after their parent's own subtree: the order of a traversal that
\* lists a folder once its subfolders are done
RECURSIVE CollectFoldersAfter(_, _)
CollectFoldersAfter(t, ids) ==
  IF ids = <<>> THEN <<>>
  ELSE CollectFoldersAfter(t, t[Head(ids)].m_SubFolders)
       \o (IF Len(t[Head(ids)].m_Files) # 0 THEN <<Head(ids)>> ELSE <<>>)
       \o CollectFoldersAfter(t, Tail(ids))

RECURSIVE CollectFoldersOf(_, _)
RECURSIVE collectFolders(_, _)
CollectFoldersOf(t, ids) ==
  IF ids = <<>> THEN <<>>
  ELSE (IF Len(t[Head(ids)].m_Files) # 0 THEN <<Head(ids)>> ELSE <<>>)
       \o collectFolders(t, Head(ids)) \o CollectFoldersOf(t, Tail(ids))

collectFolders(t, id) == CollectFoldersOf(t, t[id].m_SubFolders)

\* Folder::collectFolderNames: the folder's own path if it has files, then
\* the subfolders in order
RECURSIVE CollectFolderNamesOf(_, _)
RECURSIVE collectFolderNames(_, _)
CollectFolderNamesOf(t, ids) ==
  IF ids = <<>> THEN <<>>
  ELSE collectFolderNames(t, Head(ids)) \o CollectFolderNamesOf(t, Tail(ids))

collectFolderNames(t, id) ==
  (IF Len(t[id].m_Files) # 0 THEN <<getFullPath(t, id)>> ELSE <<>>)
  \o CollectFolderNamesOf(t, t[id].m_SubFolders)

(***************************************************************************)
(* Archive::readHeader.  readType throws data_invalid_exception on a short *)
(* read, so a header is returned only if every field of its layout is      *)
(* there.                                                                  *)
(***************************************************************************)
typeFromID(typeID) ==
  CASE typeID = 256 -> TYPE_MORROWIND
    [] typeID = 103 -> TYPE_OBLIVION
    [] typeID = 104 -> TYPE_FALLOUT3
    [] typeID = 105 -> TYPE_SKYRIMSE
    [] typeID = 1 -> TYPE_FALLOUT4
    [] typeID = 2 -> TYPE_STARFIELD
    [] typeID = 3 -> TYPE_STARFIELD_LZ4_TEXTURE
    [] OTHER -> "invalid"

typeToID(type) ==
  CASE type = TYPE_MORROWIND -> 256
    [] type = TYPE_OBLIVION -> 103
    [] type = TYPE_FALLOUT3 -> 104
    [] type = TYPE_SKYRIMSE -> 105
    [] type = TYPE_FALLOUT4 -> 1
    [] type = TYPE_STARFIELD -> 2
    [] type = TYPE_STARFIELD_LZ4_TEXTURE -> 3

\* 0x00415342, 0x58445442 and 0x00000100 as they lie in the file
MagicBSA == LE(4281154, 4)

MagicBTDX == LE(1480873026, 4)

MagicMorrowind == LE(256, 4)

Field(s, p, w) == LEValue(Avail(s, p, w))

NoHeader ==
  [exc |-> TRUE, fileIdentifier |-> <<>>, type |-> "none", archType |-> <<>>,
   fileCount |-> 0, nameTableOffset |-> 0, archiveFlags |-> 0, offset |-> 0,
   folderCount |-> 0, folderNameLength |-> 0, fileNameLength |-> 0,
   fileFlags |-> 0, pos |-> 0]

readHeader(s) ==
  LET fileIdentifier == Avail(s, 0, 4)
      type == typeFromID(Field(s, 4, 4))
      got == [NoHeader EXCEPT !.exc = FALSE, !.fileIdentifier = fileIdentifier]
  IN IF Len(s) < 4 THEN NoHeader
     ELSE IF fileIdentifier \notin {MagicBSA, MagicBTDX, MagicMorrowind} THEN NoHeader
     ELSE IF fileIdentifier # MagicMorrowind
     THEN IF Len(s) < 8 \/ type = "invalid" THEN NoHeader
          ELSE IF IsBA2Type(type)
          THEN IF Len(s) < 24 THEN NoHeader
               ELSE [got EXCEPT !.type = type, !.archType = Avail(s, 8, 4),
                                !.fileCount = Field(s, 12, 4),
                                !.nameTableOffset = Field(s, 16, 8),
                                !.archiveFlags = FLAG_HASDIRNAMES + FLAG_HASFILENAMES,
                                !.pos = 24]
          ELSE IF Len(s) < 36 THEN NoHeader
               ELSE [got EXCEPT !.type = type, !.offset = Field(s, 8, 4),
                                !.archiveFlags = Field(s, 12, 4),
                                !.folderCount = Field(s, 16, 4),
                                !.fileCount = Field(s, 20, 4),
                                !.folderNameLength = Field(s, 24, 4),
                                !.fileNameLength = Field(s, 28, 4),
                                !.fileFlags = Field(s, 32, 4),
                                !.pos = 36]
     ELSE IF Len(s) < 12 THEN NoHeader
          ELSE [got EXCEPT !.type = TYPE_MORROWIND, !.offset = Field(s, 4, 4),
                           !.fileCount = Field(s, 8, 4),
                           !.archiveFlags = FLAG_HASDIRNAMES + FLAG_HASFILENAMES,
                           !.pos = 12]

(***************************************************************************)
(* The older layout: Folder::readFolder, Folder::readFolderSE,             *)
(* Folder::addFolder, Folder::resolveFileNames.  The File constructor that *)
(* reads a file record and File::readFileName are declared outside the     *)
(* sources at hand and follow the format description: a record is hash:8,  *)
(* size:4, offset:4, the top bits of the size toggle the compression; a    *)
(* name is the next ZString, and readFileName throws if testHashes is set  *)
(* and the name's hash is not the stored one.                              *)
(***************************************************************************)
ReadFileRecord(s, st) ==
  LET sizeBytes == Avail(s, st.pos + 8, 4)
  IN NewFile(<<>>, Avail(s, st.pos, 8),
             LEValue([sizeBytes EXCEPT ![4] = @ % 64]), sizeBytes[4] >= 64,
             Field(s, st.pos + 12, 4), 0, NoTextureHeader, <<>>)

\* [exc, files, st]: the fileCount File objects of a folder
RECURSIVE ReadFileRecords(_, _, _)
ReadFileRecords(s, st, n) ==
  IF n = 0 THEN [exc |-> FALSE, files |-> <<>>, st |-> st]
  ELSE IF ~CanRead(s, st, 16) THEN [exc |-> TRUE, files |-> <<>>, st |-> Failed(st)]
  ELSE LET more == ReadFileRecords(s, Skip(st, 16), n - 1)
       IN [more EXCEPT !.files = <<ReadFileRecord(s, st)>> \o @]

\* [exc, folder, st, endPos]; se chooses the SkyrimSE record shape
readFolder(s, st, fileNamesLength, endPos, se) ==
  LET need == IF se THEN 24 ELSE 16
      m_Offset == IF se THEN Field(s, st.pos + 16, 8) ELSE Field(s, st.pos + 12, 4)
      pos == st.pos + need
      name == readBString(s, seekg(st, USub(m_Offset, fileNamesLength)))
      recs == ReadFileRecords(s, name.st, Field(s, st.pos + 8, 4))
      thrown == [exc |-> TRUE, folder |-> NewFolder, st |-> Failed(st), endPos |-> endPos]
  IN IF ~CanRead(s, st, need) THEN thrown
     ELSE IF name.exc \/ recs.exc THEN thrown
     ELSE [exc |-> FALSE,
           folder |-> [NewFolder EXCEPT !.m_NameHash = Avail(s, st.pos, 8),
                                        !.m_FileCount = Field(s, st.pos + 8, 4),
                                        !.m_Offset = m_Offset,
                                        !.m_Name = name.str,
                                        !.m_Files = recs.files],
           st |-> seekg(recs.st, pos),
           endPos |-> IF recs.st.pos > endPos THEN recs.st.pos ELSE endPos]

\* the loop over header.folderCount calling m_RootFolder->addFolder:
\* [exc, fault, t, folders, st, endPos]
RECURSIVE AddFolders(_, _, _, _, _, _, _, _)
AddFolders(s, st, t, n, fileNamesLength, endPos, se, ub) ==
  IF n = 0
  THEN [exc |-> FALSE, fault |-> FALSE, t |-> t, folders |-> <<>>, st |-> st,
        endPos |-> endPos]
  ELSE LET temp == readFolder(s, st, fileNamesLength, endPos, se)
           added == addFolderInt(t, 1, temp.folder, ub)
           more == AddFolders(s, temp.st, added.t, n - 1, fileNamesLength, temp.endPos,
                              se, ub)
           stop == [exc |-> temp.exc, fault |-> ~temp.exc, t |-> t, folders |-> <<>>,
                    st |-> temp.st, endPos |-> temp.endPos]
       IN IF temp.exc THEN stop
          ELSE IF added.fault THEN stop
          ELSE [more EXCEPT !.folders = <<added.id>> \o @]

\* [files, st, hashesValid]
RECURSIVE resolveFileNames(_, _, _, _)
resolveFileNames(s, st, fs, hashes) ==
  IF fs = <<>> THEN [files |-> <<>>, st |-> st, hashesValid |-> TRUE]
  ELSE LET name == readZString(s, st)
           thrown == hashes /\ calculateBSAHash(name.str) # Head(fs).m_NameHash
           more == resolveFileNames(s, name.st, Tail(fs), hashes)
       IN [files |-> <<[Head(fs) EXCEPT !.m_Name = name.str]>> \o more.files,
           st |-> more.st,
           hashesValid |-> ~thrown /\ more.hashesValid]

\* the loop over the folders read: [t, st, hashesValid]
RECURSIVE ResolveFolders(_, _, _, _, _)
ResolveFolders(s, st, t, folders, hashes) ==
  IF folders = <<>> THEN [t |-> t, st |-> st, hashesValid |-> TRUE]
  ELSE LET one == resolveFileNames(s, st, t[Head(folders)].m_Files, hashes)
           more == ResolveFolders(s, one.st,
                                  [t EXCEPT ![Head(folders)].m_Files = one.files],
                                  Tail(folders), hashes)
       IN [more EXCEPT !.hashesValid = one.hashesValid /\ @]

\* return hashesValid ? ERROR_NONE : ERROR_INVALIDHASHES
HashesResultAlwaysInvalid(hashesValid) == "ERROR_INVALIDHASHES"

HashesResult(hashesValid) ==
  IF hashesValid THEN "ERROR_NONE" ELSE "ERROR_INVALIDHASHES"

(***************************************************************************)
(* The newer layout (BTDX) and Morrowind branches of Archive::read.        *)
(***************************************************************************)
\* the name table: [exc, names, st].  The length is read with readType, the
\* characters with a plain read into new char[length + 1].
RECURSIVE ReadBA2Names(_, _, _, _)
ReadBA2Names(s, st, n, heap) ==
  IF n = 0 THEN [exc |-> FALSE, names |-> <<>>, st |-> st]
  ELSE IF ~CanRead(s, st, 2) THEN [exc |-> TRUE, names |-> <<>>, st |-> Failed(st)]
  ELSE LET length == Field(s, st.pos, 2)
           file == ReadCString(s, Skip(st, 2), length, heap)
           more == ReadBA2Names(s, file.st, n - 1, heap)
       IN [more EXCEPT !.names = <<file.str>> \o @]

\* the start of the records: 24, 32 for Starfield, 36 for its LZ4 textures
BA2RecordsOffset(type) ==
  CASE type = TYPE_STARFIELD -> 32
    [] type = TYPE_STARFIELD_LZ4_TEXTURE -> 36
    [] OTHER -> 24

\* the GNRL loop: [exc, fault, t]
RECURSIVE ReadGNRL(_, _, _, _, _)
ReadGNRL(s, st, t, names, ub) ==
  IF names = <<>> THEN [exc |-> FALSE, fault |-> FALSE, t |-> t]
  ELSE IF ~CanRead(s, st, 32) THEN [exc |-> TRUE, fault |-> FALSE, t |-> t]
  ELSE LET newDir == addFolderFromFile(t, Head(names), Field(s, st.pos + 24, 4),
                                       Field(s, st.pos + 16, 8),
                                       Field(s, st.pos + 28, 4), NoTextureHeader, <<>>,
                                       ub)
       IN IF newDir.fault THEN [exc |-> FALSE, fault |-> TRUE, t |-> t]
          ELSE ReadGNRL(s, Skip(st, 36), newDir.t, Tail(names), ub)

\* [exc, chunks, st]
RECURSIVE ReadChunks(_, _, _)
ReadChunks(s, st, n) ==
  IF n = 0 THEN [exc |-> FALSE, chunks |-> <<>>, st |-> st]
  ELSE IF ~CanRead(s, st, 24) THEN [exc |-> TRUE, chunks |-> <<>>, st |-> Failed(st)]
  ELSE LET more == ReadChunks(s, Skip(st, 24), n - 1)
           chunk == [offset |-> Field(s, st.pos, 8),
                     packedSize |-> Field(s, st.pos + 8, 4),
                     unpackedSize |-> Field(s, st.pos + 12, 4)]
       IN [more EXCEPT !.chunks = <<chunk>> \o @]

\* the DX10 loop: [exc, fault, t].  chunks[0] of a texture without chunks is
\* an element of an empty vector.
RECURSIVE ReadDX10(_, _, _, _, _)
ReadDX10(s, st, t, names, ub) ==
  IF names = <<>> THEN [exc |-> FALSE, fault |-> FALSE, t |-> t]
  ELSE IF ~CanRead(s, st, 24) THEN [exc |-> TRUE, fault |-> FALSE, t |-> t]
  ELSE LET got == ReadChunks(s, Skip(st, 24), Field(s, st.pos + 13, 1))
           first == IF got.chunks = <<>>
                    THEN [offset |-> 0, packedSize |-> 0, unpackedSize |-> 0]
                    ELSE got.chunks[1]
           texChunks == [i \in DOMAIN got.chunks |->
                           Chunk(got.chunks[i].packedSize, got.chunks[i].unpackedSize)]
           texHeader == TextureHeader(Field(s, st.pos + 16, 2), Field(s, st.pos + 18, 2),
                                      Field(s, st.pos + 20, 1), Field(s, st.pos + 21, 2),
                                      Field(s, st.pos + 23, 1))
           newDir == addFolderFromFile(t, Head(names), first.packedSize, first.offset,
                                       first.unpackedSize, texHeader, texChunks, ub)
       IN IF got.exc THEN [exc |-> TRUE, fault |-> FALSE, t |-> t]
          ELSE IF (got.chunks = <<>> /\ ub = "fault") \/ newDir.fault
          THEN [exc |-> FALSE, fault |-> TRUE, t |-> t]
          ELSE ReadDX10(s, got.st, newDir.t, Tail(names), ub)

\* "GNRL" and "DX10"
TagGNRL == <<71, 78, 82, 76>>

TagDX10 == <<68, 88, 49, 48>>

\* [exc, fault, escaped, hashesValid, t]
ReadBA2(s, hdr, t, heap, ub) ==
  LET named == ReadBA2Names(s, seekg(Stream(hdr.pos), hdr.nameTableOffset),
                            hdr.fileCount, heap)
      at == seekg(named.st, BA2RecordsOffset(hdr.type))
      Listed(recs) ==
        IF named.exc
        THEN [exc |-> TRUE, fault |-> FALSE, escaped |-> FALSE, hashesValid |-> TRUE,
              t |-> t]
        ELSE [exc |-> recs.exc, fault |-> recs.fault, escaped |-> FALSE,
              hashesValid |-> TRUE, t |-> recs.t]
  IN Listed(IF CString(hdr.archType) = TagGNRL THEN ReadGNRL(s, at, t, named.names, ub)
            ELSE IF CString(hdr.archType) = TagDX10
            THEN ReadDX10(s, at, t, named.names, ub)
            ELSE [exc |-> FALSE, fault |-> FALSE, t |-> t])

\* the Morrowind loop over the files: [fault, escaped, t].  sizes and names
\* are the two tables as read (zero where the read fell short), i counts
\* from 1.
RECURSIVE ReadMorrowindFiles(_, _, _, _, _, _, _, _, _, _)
ReadMorrowindFiles(s, st, t, i, hdr, sizes, names, dataOffset, heap, ub) ==
  IF i > hdr.fileCount THEN [fault |-> FALSE, escaped |-> FALSE, t |-> t]
  ELSE LET last == USub(hdr.offset, 12 * hdr.fileCount)
           index == IF i = hdr.fileCount THEN last
                    ELSE USub(LEValue(SubSeq(names, 4 * i + 1, 4 * i + 4)),
                              LEValue(SubSeq(names, 4 * i - 3, 4 * i)))
           filePath == ReadCString(s, st, index, heap)
           newDir == addFolderFromFile(t, filePath.str,
                                       LEValue(SubSeq(sizes, 8 * i - 7, 8 * i - 4)),
                                       UAdd(dataOffset,
                                            LEValue(SubSeq(sizes, 8 * i - 3, 8 * i))),
                                       0, NoTextureHeader, <<>>, ub)
       IN IF index >= TooBig THEN [fault |-> FALSE, escaped |-> TRUE, t |-> t]
          ELSE IF newDir.fault THEN [fault |-> TRUE, escaped |-> FALSE, t |-> t]
          ELSE ReadMorrowindFiles(s, filePath.st, newDir.t, i + 1, hdr, sizes, names,
                                  dataOffset, heap, ub)

\* the tables are read with plain reads into zero-filled vectors; a table of
\* a size no allocation delivers ends the call with std::bad_alloc
ReadMorrowind(s, hdr, t, heap, ub) ==
  LET dataOffset == UAdd(UAdd(12, hdr.offset), hdr.fileCount * 8)
      fileSizeOffset == RawRead(s, Stream(hdr.pos), hdr.fileCount * 8,
                                Zeros(hdr.fileCount * 8))
      fileNameOffset == RawRead(s, fileSizeOffset.st, hdr.fileCount * 4,
                                Zeros(hdr.fileCount * 4))
      Done(done) ==
        IF hdr.fileCount >= TooBig
        THEN [exc |-> FALSE, fault |-> FALSE, escaped |-> TRUE, hashesValid |-> TRUE,
              t |-> t]
        ELSE [exc |-> FALSE, fault |-> done.fault, escaped |-> done.escaped,
              hashesValid |-> TRUE, t |-> done.t]
  IN Done(ReadMorrowindFiles(s, fileNameOffset.st, t, 1, hdr, fileSizeOffset.bytes,
                             fileNameOffset.bytes, dataOffset, heap, ub))

ReadOlder(s, hdr, t, hashes, ub) ==
  LET Named(added) ==
        LET named == ResolveFolders(s, seekg(added.st, added.endPos), added.t,
                                    added.folders, hashes)
        IN IF added.exc \/ added.fault
           THEN [exc |-> added.exc, fault |-> added.fault, escaped |-> FALSE,
                 hashesValid |-> TRUE, t |-> added.t]
           ELSE [exc |-> FALSE, fault |-> FALSE, escaped |-> FALSE,
                 hashesValid |-> named.hashesValid, t |-> named.t]
  IN Named(AddFolders(s, Stream(hdr.pos), t, hdr.folderCount, hdr.fileNameLength,
                      hdr.offset, hdr.type = TYPE_SKYRIMSE, ub))

(***************************************************************************)
(* Archive::read.  data_invalid_exception is declared outside the sources  *)
(* at hand; per the error handling described for the reader it ends in the *)
(* handler that returns ERROR_INVALIDDATA.                                 *)
(***************************************************************************)
CatchesDataInvalid == TRUE

\* [result, header, t, type, flags] from the file's bytes, the object's
\* tree, type and flags before the call, and the testHashes argument
read(s, t, type, flags, hashes, heap, ub) ==
  LET thrown == IF CatchesDataInvalid THEN "ERROR_INVALIDDATA" ELSE "escaped"
      Returned(hdr, body) ==
        IF hdr.exc
        THEN [result |-> thrown, header |-> hdr, t |-> t, type |-> type, flags |-> flags]
        ELSE [result |-> IF body.fault THEN "fault"
                         ELSE IF body.escaped THEN "escaped"
                         ELSE IF body.exc THEN thrown
                         ELSE IF IsBA2Type(hdr.type) \/ hdr.type = TYPE_MORROWIND
                         THEN "ERROR_NONE"
                         ELSE HashesResult(body.hashesValid),
              header |-> hdr, t |-> body.t, type |-> hdr.type,
              flags |-> hdr.archiveFlags]
      Parsed(hdr) ==
        Returned(hdr, IF IsBA2Type(hdr.type) THEN ReadBA2(s, hdr, t, heap, ub)
                      ELSE IF hdr.type = TYPE_MORROWIND
                      THEN ReadMorrowind(s, hdr, t, heap, ub)
                      ELSE ReadOlder(s, hdr, t, hashes, ub))
  IN Parsed(readHeader(s))

(***************************************************************************)
(* Archive::write.  The written file is computed as it stands after the    *)
(* second pass, in which every offset is the one the first pass recorded.  *)
(* File::writeHeader and File::writeData are declared outside the sources  *)
(* at hand and follow the writer's description: a file record is hash,     *)
(* size (with the compression toggle) and the offset the payload was       *)
(* copied to; the payload is copied from the source archive.               *)
(***************************************************************************)
ToLower(c) == IF c \in 65..90 THEN c + 32 ELSE c

\* a comparison that regards case
endsWithExact(fileName, extension) ==
  /\ Len(fileName) >= Len(extension)
  /\ \A i \in DOMAIN extension :
       fileName[Len(fileName) - Len(extension) + i] = extension[i]

endsWith(fileName, extension) ==
  /\ Len(fileName) >= Len(extension)
  /\ \A i \in DOMAIN extension :
       ToLower(fileName[Len(fileName) - Len(extension) + i]) = extension[i]

\* .nif .dds .xml .wav .mp3 .txt .spt .tex .ctl, bit 0 to bit 8
Extensions ==
  << <<46, 110, 105, 102>>, <<46, 100, 100, 115>>, <<46, 120, 109, 108>>,
     <<46, 119, 97, 118>>, <<46, 109, 112, 51>>, <<46, 116, 120, 116>>,
     <<46, 115, 112, 116>>, <<46, 116, 101, 120>>, <<46, 99, 116, 108>> >>

\* the branch of the else-if chain one file name takes: the first extension
\* not seen before that the name ends with, 0 when no branch is taken
RECURSIVE FlagBranch(_, _, _)
FlagBranch(fileName, has, k) ==
  IF k > Len(Extensions) THEN 0
  ELSE IF k \notin has /\ endsWith(fileName, Extensions[k]) THEN k
  ELSE FlagBranch(fileName, has, k + 1)

\* the extensions seen after the loop over the file list
RECURSIVE FlagLoop(_, _, _)
FlagLoop(list, i, has) ==
  IF i > Len(list) THEN has
  ELSE LET Then(k) == FlagLoop(list, i + 1, IF k = 0 THEN has ELSE has \cup {k})
       IN Then(FlagBranch(list[i], has, 1))

RECURSIVE FlagBits(_, _)
FlagBits(has, k) ==
  IF k > Len(Extensions) THEN 0
  ELSE (IF k \in has THEN 2 ^ (k - 1) ELSE 0) + FlagBits(has, k + 1)

determineFileFlags(list) == FlagBits(FlagLoop(list, 1, {}), 1)

RECURSIVE TotalLength(_)
TotalLength(strs) == IF strs = <<>> THEN 0 ELSE Len(Head(strs)) + TotalLength(Tail(strs))

RECURSIVE Concat(_)
Concat(seqs) == IF seqs = <<>> THEN <<>> ELSE Head(seqs) \o Concat(Tail(seqs))

\* the names of the files of the collected folders, folder by folder
WriteFileNames(t, folders) ==
  Concat([i \in DOMAIN folders |->
            [j \in DOMAIN t[folders[i]].m_Files |-> t[folders[i]].m_Files[j].m_Name]])

WriteFilesOf(t, folders) == Concat([i \in DOMAIN folders |-> t[folders[i]].m_Files])

\* Archive::writeHeader
writeHeader(t, type, flags, fileFlags, numFolders, folderNamesLength, fileNamesLength) ==
  MagicBSA \o LE(typeToID(type), 4) \o LE(36, 4) \o LE(flags, 4) \o LE(numFolders, 4)
  \o LE(countFiles(t, 1), 4) \o LE(folderNamesLength, 4) \o LE(fileNamesLength, 4)
  \o LE(fileFlags, 4)

\* the length of what Folder::writeData writes for a folder
FolderDataLength(t, id) == 1 + Len(getFullPath(t, id)) + 16 * Len(t[id].m_Files)

RECURSIVE FolderDataStart(_, _, _)
FolderDataStart(t, folders, i) ==
  IF i = 1 THEN 36 + 16 * Len(folders)
  ELSE FolderDataStart(t, folders, i - 1) + FolderDataLength(t, folders[i - 1])

\* Folder::writeHeader: hash, file count and m_OffsetWrite, 16 bytes for
\* every archive type
FolderWriteHeader(t, id, m_OffsetWrite) ==
  t[id].m_NameHash \o LE(Len(t[id].m_Files), 4) \o LE(m_OffsetWrite, 4)

\* the bytes File::writeData copies: the stored bytes of the file as far as
\* the source archive has them
Payload(source, f) == Avail(source, f.m_DataOffset, f.m_FileSize)

RECURSIVE PayloadStart(_, _, _, _)
PayloadStart(source, fs, k, dataStart) ==
  IF k = 1 THEN dataStart
  ELSE PayloadStart(source, fs, k - 1, dataStart) + Len(Payload(source, fs[k - 1]))

FileWriteHeader(f, m_DataOffsetWrite) ==
  f.m_NameHash
  \o [LE(f.m_FileSize, 4) EXCEPT ![4] = IF f.m_ToggleCompressed THEN (@ % 64) + 64 ELSE @]
  \o LE(m_DataOffsetWrite, 4)

\* the file the call leaves behind
write(t, type, flags, source) ==
  LET folders == collectFolders(t, 1)
      folderNames == [i \in DOMAIN folders |-> getFullPath(t, folders[i])]
      fileNames == WriteFileNames(t, folders)
      fs == WriteFilesOf(t, folders)
      folderNamesLength == TotalLength(folderNames)
      fileNamesLength == TotalLength(fileNames)
      namesStart == FolderDataStart(t, folders, Len(folders) + 1)
      dataStart == namesStart + fileNamesLength + Len(fileNames)
      \* the number in fs of the first file of folder i, less one
      Before(i) == Len(WriteFilesOf(t, SubSeq(folders, 1, i - 1)))
      FolderData(i) ==
        writeBString(folderNames[i])
        \o Concat([j \in DOMAIN t[folders[i]].m_Files |->
                     FileWriteHeader(t[folders[i]].m_Files[j],
                                     PayloadStart(source, fs, Before(i) + j, dataStart))])
  IN writeHeader(t, type, flags, determineFileFlags(fileNames), Len(folderNames),
                 folderNamesLength, fileNamesLength)
     \o Concat([i \in DOMAIN folders |->
                  FolderWriteHeader(t, folders[i],
                                    FolderDataStart(t, folders, i) + fileNamesLength)])
     \o Concat([i \in DOMAIN folders |-> FolderData(i)])
     \o Concat([i \in DOMAIN fileNames |-> writeZString(fileNames[i])])
     \o Concat([k \in DOMAIN fs |-> Payload(source, fs[k])])

(***************************************************************************)
(* The archive files the reader is run on: well-formed archives of every   *)
(* variant laid out as the format description says, every proper prefix of *)
(* their parsed part, and 36-byte files with every pairing of a magic and  *)
(* a version.                                                              *)
(***************************************************************************)
\* a file of a given archive: its name, the bytes stored for it, its content
\* and the size recorded for the content, whether its stored hash is right,
\* its compression bit (older layout) or whether it is stored packed (newer
\* layout), and its texture header
StoredFile(name, stored, content, usize, hashOk, toggle, tex) ==
  [name |-> name, size |-> Len(stored), stored |-> stored, content |-> content,
   usize |-> usize, hashOk |-> hashOk, toggle |-> toggle, tex |-> tex]

GivenFile(name, size, hashOk, toggle) ==
  StoredFile(name, [i \in 1..size |-> 200 + i], [i \in 1..size |-> 200 + i], size, hashOk,
             toggle, TextureHeader(4, 4, 1, 28, 0))

GivenFolder(name, fs) == [name |-> name, files |-> fs]

StoredHash(f) ==
  IF f.hashOk THEN calculateBSAHash(f.name) ELSE [calculateBSAHash(f.name) EXCEPT ![5] = 1]

GivenPayload(f) == f.stored

GivenFilesOf(folders) == Concat([i \in DOMAIN folders |-> folders[i].files])

GivenNames(fs) == [k \in DOMAIN fs |-> fs[k].name]

GivenSizes(fs) == [k \in DOMAIN fs |-> fs[k].size]

\* [bytes, parsed]: the file and the length of the part the reader parses
EncodeOlder(version, flags, folders) ==
  LET se == version = 105
      n == Len(folders)
      fs == GivenFilesOf(folders)
      nameLen == TotalLength(GivenNames(fs)) + Len(fs)
      BlockLen(i) == 1 + Len(folders[i].name) + 16 * Len(folders[i].files)
      BlockStart(i) == 36 + (IF se THEN 24 ELSE 16) * n
                       + SumSeq([j \in 1..(i - 1) |-> BlockLen(j)])
      dataStart == BlockStart(n + 1) + nameLen
      Before(i) == SumSeq([j \in 1..(i - 1) |-> Len(folders[j].files)])
      FolderRecord(i) ==
        calculateBSAHash(folders[i].name) \o LE(Len(folders[i].files), 4)
        \o (IF se THEN LE(0, 4) \o LE(BlockStart(i) + nameLen, 8)
            ELSE LE(BlockStart(i) + nameLen, 4))
      FileRecord(k) ==
        StoredHash(fs[k])
        \o [LE(fs[k].size, 4) EXCEPT ![4] = IF fs[k].toggle THEN 64 ELSE 0]
        \o LE(dataStart + SumSeq(SubSeq(GivenSizes(fs), 1, k - 1)), 4)
      Block(i) ==
        writeBString(folders[i].name)
        \o Concat([j \in DOMAIN folders[i].files |-> FileRecord(Before(i) + j)])
  IN [bytes |->
        MagicBSA \o LE(version, 4) \o LE(36, 4) \o LE(flags, 4) \o LE(n, 4)
        \o LE(Len(fs), 4)
        \o LE(TotalLength([i \in DOMAIN folders |-> folders[i].name]) + n, 4)
        \o LE(nameLen, 4) \o LE(0, 4)
        \o Concat([i \in DOMAIN folders |-> FolderRecord(i)])
        \o Concat([i \in DOMAIN folders |-> Block(i)])
        \o Concat([k \in DOMAIN fs |-> writeZString(fs[k].name)])
        \o Concat([k \in DOMAIN fs |-> GivenPayload(fs[k])]),
      parsed |-> dataStart]

\* Morrowind: header, size/offset table, name offsets, names, hashes, data
EncodeMorrowind(fs) ==
  LET n == Len(fs)
      nameLen == TotalLength(GivenNames(fs)) + n
      NameOffset(k) == TotalLength(SubSeq(GivenNames(fs), 1, k - 1)) + (k - 1)
  IN [bytes |->
        MagicMorrowind \o LE(12 * n + nameLen, 4) \o LE(n, 4)
        \o Concat([k \in DOMAIN fs |->
                     LE(fs[k].size, 4) \o LE(SumSeq(SubSeq(GivenSizes(fs), 1, k - 1)), 4)])
        \o Concat([k \in DOMAIN fs |-> LE(NameOffset(k), 4)])
        \o Concat([k \in DOMAIN fs |-> writeZString(fs[k].name)])
        \o Concat([k \in DOMAIN fs |-> calculateBSAHash(fs[k].name)])
        \o Concat([k \in DOMAIN fs |-> GivenPayload(fs[k])]),
      parsed |-> 12 + 12 * n + nameLen]

\* the newer layout, general archive: header, records, data, name table
EncodeGNRL(version, fs) ==
  LET n == Len(fs)
      start == BA2RecordsOffset(typeFromID(version))
      dataStart == start + 36 * n
      Record(k) ==
        LE(0, 4) \o Zeros(4) \o LE(0, 4) \o LE(0, 4)
        \o LE(dataStart + SumSeq(SubSeq(GivenSizes(fs), 1, k - 1)), 8)
        \o LE(IF fs[k].toggle THEN fs[k].size ELSE 0, 4) \o LE(fs[k].usize, 4) \o LE(0, 4)
      bytes ==
        MagicBTDX \o LE(version, 4) \o TagGNRL \o LE(n, 4)
        \o LE(dataStart + SumSeq(GivenSizes(fs)), 8) \o Zeros(start - 24)
        \o Concat([k \in DOMAIN fs |-> Record(k)])
        \o Concat([k \in DOMAIN fs |-> GivenPayload(fs[k])])
        \o Concat([k \in DOMAIN fs |-> LE(Len(fs[k].name), 2) \o fs[k].name])
  IN [bytes |-> bytes, parsed |-> Len(bytes)]

\* the newer layout, texture archive; every texture has `chunks` chunks of
\* its size each
EncodeDX10(version, fs, chunks) ==
  LET n == Len(fs)
      start == BA2RecordsOffset(typeFromID(version))
      dataStart == start + (24 + 24 * chunks) * n
      ChunkRecord(k, c) ==
        LE(dataStart + chunks * SumSeq(SubSeq(GivenSizes(fs), 1, k - 1))
           + (c - 1) * fs[k].size, 8)
        \o LE(IF fs[k].toggle THEN fs[k].size ELSE 0, 4) \o LE(fs[k].usize, 4)
        \o LE(0, 2) \o LE(0, 2) \o LE(0, 4)
      Record(k) ==
        LE(0, 4) \o Zeros(4) \o LE(0, 4) \o <<0, chunks>> \o LE(24, 2)
        \o LE(fs[k].tex.height, 2) \o LE(fs[k].tex.width, 2) \o LE(fs[k].tex.mipCount, 1)
        \o LE(fs[k].tex.format, 2) \o LE(fs[k].tex.unknown2, 1)
        \o Concat([c \in 1..chunks |-> ChunkRecord(k, c)])
      bytes ==
        MagicBTDX \o LE(version, 4) \o TagDX10 \o LE(n, 4)
        \o LE(dataStart + chunks * SumSeq(GivenSizes(fs)), 8) \o Zeros(start - 24)
        \o Concat([k \in DOMAIN fs |-> Record(k)])
        \o Concat([k \in DOMAIN fs |->
                     Concat([c \in 1..chunks |-> GivenPayload(fs[k])])])
        \o Concat([k \in DOMAIN fs |-> LE(Len(fs[k].name), 2) \o fs[k].name])
  IN [bytes |-> bytes, parsed |-> Len(bytes)]

\* folder lists of older-layout archives: one folder; a nested folder with
\* two files and a second folder; a file whose stored hash is not the hash
\* of its name; a folder stored before and after its parent
OneFolder == << GivenFolder(<<97>>, << GivenFile(<<120>>, 2, TRUE, FALSE) >>) >>

TwoFolders ==
  << GivenFolder(<<97, 92, 98>>, << GivenFile(<<120, 46, 110, 105, 102>>, 2, TRUE, FALSE),
                                    GivenFile(<<121>>, 1, TRUE, TRUE) >>),
     GivenFolder(<<99>>, << GivenFile(<<122>>, 3, TRUE, FALSE) >>) >>

BadHash ==
  << GivenFolder(<<97>>, << GivenFile(<<120>>, 1, FALSE, FALSE),
                            GivenFile(<<121>>, 1, TRUE, FALSE) >>) >>

ParentLast ==
  << GivenFolder(<<97, 92, 98>>, << GivenFile(<<120>>, 1, TRUE, FALSE) >>),
     GivenFolder(<<97>>, << GivenFile(<<121>>, 1, TRUE, FALSE) >>) >>

ParentFirst ==
  << GivenFolder(<<97>>, << GivenFile(<<121>>, 1, TRUE, FALSE) >>),
     GivenFolder(<<97, 92, 98>>, << GivenFile(<<120>>, 1, FALSE, FALSE) >>) >>

\* files of Morrowind and newer-layout archives, named by their full paths
PathFiles == << GivenFile(<<97, 92, 120>>, 2, TRUE, TRUE),
                GivenFile(<<97, 92, 121>>, 1, TRUE, FALSE) >>

RootFile == << GivenFile(<<97, 92, 120>>, 1, TRUE, FALSE), GivenFile(<<121>>, 1, TRUE, FALSE) >>

Given(kind, folders, enc) ==
  [kind |-> kind, folders |-> folders, bytes |-> enc.bytes, parsed |-> enc.parsed,
   whole |-> TRUE]

OlderVersions == {103, 104, 105}

OlderGivens ==
  { Given("older", fo, EncodeOlder(v, FLAG_HASDIRNAMES + FLAG_HASFILENAMES, fo)) :
      v \in OlderVersions, fo \in {OneFolder, TwoFolders, BadHash, ParentFirst} }
  \cup { Given("older", ParentLast,
               EncodeOlder(104, FLAG_HASDIRNAMES + FLAG_HASFILENAMES, ParentLast)) }

MorrowindGivens ==
  { Given("morrowind", <<>>, EncodeMorrowind(fs)) : fs \in {PathFiles, RootFile} }

NewerGivens ==
  { Given("newer", <<>>, EncodeGNRL(v, PathFiles)) : v \in {1, 2, 3} }
  \cup { Given("newer", <<>>, EncodeGNRL(1, RootFile)) }
  \cup { Given("newer", <<>>, EncodeDX10(1, PathFiles, c)) : c \in {0, 2} }

WholeGivens == OlderGivens \cup MorrowindGivens \cup NewerGivens

Truncated(g) ==
  { [g EXCEPT !.bytes = SubSeq(g.bytes, 1, n), !.whole = FALSE] : n \in 0..(g.parsed - 1) }

TruncatedGivens == UNION { Truncated(g) : g \in WholeGivens }

Magics == {MagicBSA, MagicBTDX, MagicMorrowind, <<88, 88, 88, 88>>}

Versions == {103, 104, 105, 1, 2, 3, 256, 102}

SyntheticGivens ==
  { [kind |-> "synthetic", folders |-> <<>>, bytes |-> m \o LE(v, 4) \o Zeros(28),
     parsed |-> 36, whole |-> TRUE] : m \in Magics, v \in Versions }

Givens == WholeGivens \cup TruncatedGivens \cup SyntheticGivens

(***************************************************************************)
(* Reading an archive file, writing the archive out, and reading the       *)
(* written file with a new Archive object.                                 *)
(***************************************************************************)
IoInit ==
  /\ \E g \in Givens : disk = [src |-> g.bytes, out |-> <<>>, given |-> g]
  /\ testHashes \in BOOLEAN
  /\ build \in UBOutcomes
  /\ ioPc = "fresh" /\ header = <<>> /\ result = "none" /\ firstRead = <<>>
  /\ tree = EmptyTree /\ extractedFile = <<>> /\ inserted = <<>>
  /\ m_Type = TYPE_FALLOUT3
  /\ m_ArchiveFlags = FLAG_HASDIRNAMES + FLAG_HASFILENAMES
  /\ files = <<>> /\ srcData = <<>> /\ filesAtCall = <<>> /\ outDir = <<>>
  /\ overwrite = TRUE
  /\ PipelineIdle

Read ==
  /\ ioPc = "fresh"
  /\ \E heap \in HeapPatterns :
       \E r \in {read(disk.src, tree, m_Type, m_ArchiveFlags, testHashes, heap, build)} :
          /\ result' = r.result
          /\ header' = r.header
          /\ tree' = r.t
          /\ firstRead' = [tree |-> r.t, result |-> r.result]
          /\ m_Type' = r.type
          /\ m_ArchiveFlags' = r.flags
  /\ ioPc' = "read"
  /\ UNCHANGED <<disk, testHashes, build, extractedFile, inserted, pipeVars>>

\* the caller has the archive object back after read returned
Write ==
  /\ ioPc = "read"
  /\ result \notin {"fault", "escaped"}
  /\ disk' = [disk EXCEPT !.out = write(tree, m_Type, m_ArchiveFlags, disk.src)]
  /\ result' = "ERROR_NONE"
  /\ ioPc' = "written"
  /\ UNCHANGED <<m_Type, m_ArchiveFlags, testHashes, build, header, tree, firstRead,
               extractedFile, inserted, pipeVars>>

Reread ==
  /\ ioPc = "written"
  /\ \E heap \in HeapPatterns :
       \E r \in {read(disk.out, EmptyTree, TYPE_FALLOUT3,
                      FLAG_HASDIRNAMES + FLAG_HASFILENAMES, testHashes, heap, build)} :
          /\ result' = r.result
          /\ header' = r.header
          /\ tree' = r.t
          /\ m_Type' = r.type
          /\ m_ArchiveFlags' = r.flags
  /\ ioPc' = "reread"
  /\ UNCHANGED <<disk, testHashes, build, firstRead, extractedFile, inserted, pipeVars>>

IoNext == Read \/ Write \/ Reread

ReadWriteSpec == IoInit /\ [][IoNext]_vars

(***************************************************************************)
(* Properties of reading and writing.                                      *)
(***************************************************************************)
\* what an observer lists of a tree: for every folder holding files its
\* full path and the names and sizes of its files
TreeSummary(t) ==
  { [path |-> getFullPath(t, id),
     entries |-> [j \in DOMAIN t[id].m_Files |->
                    <<t[id].m_Files[j].m_Name, t[id].m_Files[j].m_FileSize>>]] :
      id \in Range(collectFolders(t, 1)) }

KnownMagic(s) == Avail(s, 0, 4) \in {MagicBSA, MagicBTDX, MagicMorrowind}

KnownVersion(s) == Field(s, 4, 4) \in {256, 103, 104, 105, 1, 2, 3}

\* the variant the dispatch table gives a magic and a version
DispatchTable(magic, version) ==
  IF magic = MagicMorrowind THEN TYPE_MORROWIND
  ELSE IF magic = MagicBSA /\ version = 103 THEN TYPE_OBLIVION
  ELSE IF magic = MagicBSA /\ version = 104 THEN TYPE_FALLOUT3
  ELSE IF magic = MagicBSA /\ version = 105 THEN TYPE_SKYRIMSE
  ELSE IF magic = MagicBTDX /\ version = 1 THEN TYPE_FALLOUT4
  ELSE IF magic = MagicBTDX /\ version = 2 THEN TYPE_STARFIELD
  ELSE IF magic = MagicBTDX /\ version = 3 THEN TYPE_STARFIELD_LZ4_TEXTURE
  ELSE "rejected"

\* C7: for every older-layout archive A (Oblivion, Fallout3/NV/SkyrimLE and
\* SkyrimSE alike) that read accepts, reading the file written by write
\* succeeds and gives the same set of folder full paths, the same file names
\* in each folder and the same file sizes as reading A gave.
C7_RoundTripSameTree ==
  (/\ ioPc = "reread"
   /\ disk.given.kind = "older" /\ disk.given.whole
   /\ firstRead.result = "ERROR_NONE")
  => (result = "ERROR_NONE" /\ TreeSummary(tree) = TreeSummary(firstRead.tree))

\* the round trip of C7 for the archives that are not SkyrimSE archives
RoundTripSameTreeBeforeSE ==
  (/\ ioPc = "reread"
   /\ disk.given.kind = "older" /\ disk.given.whole
   /\ Field(disk.src, 4, 4) # 105
   /\ firstRead.result = "ERROR_NONE")
  => (result = "ERROR_NONE" /\ TreeSummary(tree) = TreeSummary(firstRead.tree))

\* C8: the header reader accepts exactly the (magic, version) pairs of the
\* dispatch table and gives each its variant; every other pair is rejected.
\* Stated for files that hold a whole header.
C8_HeaderAcceptsExactlyTable ==
  (ioPc = "read" /\ Len(disk.src) >= 36)
  => (IF header.exc THEN "rejected" ELSE header.type)
     = DispatchTable(Avail(disk.src, 0, 4), Field(disk.src, 4, 4))

\* C9: read returns INVALIDDATA, and nothing else, whenever the archive has
\* an unrecognized magic, an unrecognized version, or ends before the end of
\* the part the parser reads.  Stated for a build that goes on where the
\* code's behaviour is undefined.
C9_ReadReturnsInvalidData ==
  (/\ ioPc = "read"
   /\ build = "benign"
   /\ \/ ~disk.given.whole
      \/ ~KnownMagic(disk.src)
      \/ (Avail(disk.src, 0, 4) # MagicMorrowind /\ ~KnownVersion(disk.src)))
  => result = "ERROR_INVALIDDATA"

\* the folder records a tree holds, in the order read: the folders that got
\* their offset from a record (a folder made for a path component has none)
RecordsHeld(t) ==
  LET Held(f) == f.m_Offset # TooBig
      read1 == SelectSeq(Tail(t), Held)
  IN [i \in DOMAIN read1 |->
        [hash |-> read1[i].m_NameHash,
         entries |-> [j \in DOMAIN read1[i].m_Files |->
                        <<read1[i].m_Files[j].m_NameHash, read1[i].m_Files[j].m_FileSize,
                          read1[i].m_Files[j].m_ToggleCompressed>>]]]

RecordsGiven(g) ==
  [i \in DOMAIN g.folders |->
     [hash |-> calculateBSAHash(g.folders[i].name),
      entries |-> [j \in DOMAIN g.folders[i].files |->
                     <<StoredHash(g.folders[i].files[j]), g.folders[i].files[j].size,
                       g.folders[i].files[j].toggle>>]]]

NameHashDiffers(t) ==
  \E id \in DOMAIN t : \E j \in DOMAIN t[id].m_Files :
    calculateBSAHash(t[id].m_Files[j].m_Name) # t[id].m_Files[j].m_NameHash

GivenHashDiffers(g) ==
  \E i \in DOMAIN g.folders : \E j \in DOMAIN g.folders[i].files :
    ~g.folders[i].files[j].hashOk

\* C10: read of an older-layout archive returns INVALIDHASHES only if
\* testHashes is true and some file name read has a hash other than the
\* stored one (in a whole archive: some stored hash is not the hash of the
\* stored name); never with testHashes false; and the tree then holds every
\* folder and file record of the archive.
C10_InvalidHashesOnlyOnMismatch ==
  (/\ ioPc = "read"
   /\ disk.given.kind = "older"
   /\ result = "ERROR_INVALIDHASHES")
  => /\ testHashes
     /\ NameHashDiffers(tree)
     /\ (disk.given.whole => GivenHashDiffers(disk.given))
     /\ RecordsHeld(tree) = RecordsGiven(disk.given)

C10_InvalidHashesReturned ==
  /\ ioPc = "read"
  /\ disk.given.kind = "older" /\ disk.given.whole
  /\ testHashes
  /\ result = "ERROR_INVALIDHASHES"
  /\ Len(RecordsHeld(tree)) = 2

(***************************************************************************)
(* The compression libraries.  zlib and LZ4 are outside the sources at      *)
(* hand; the extractors depend on which inputs they accept and on the       *)
(* bytes they give back.  Each format is given a small encoding of its own  *)
(* here: a zlib stream is a two-byte header, the content with every byte    *)
(* moved by one, and a check byte; an LZ4 frame is the four-byte frame      *)
(* magic and the content moved by two; an LZ4 block is a length byte and    *)
(* the content moved by three.  No decoder accepts another's encoding.      *)
(***************************************************************************)
Shift(bs, k) == [i \in DOMAIN bs |-> (bs[i] + k) % 256]

ZlibStream(content) == <<120, 156>> \o Shift(content, 1) \o <<SumSeq256(content)>>

\* [ok, out]: inflate reports a data error on anything but a whole stream
inflate(in) ==
  LET out == Shift(SubSeq(in, 3, Len(in) - 1), 255)
  IN [ok |-> Len(in) >= 3 /\ in[1] = 120 /\ in[2] = 156 /\ in[Len(in)] = SumSeq256(out),
      out |-> out]

LZ4Frame(content) == <<4, 34, 77, 24>> \o Shift(content, 2)

LZ4F_decompress(in) ==
  [ok |-> Len(in) >= 4 /\ SubSeq(in, 1, 4) = <<4, 34, 77, 24>>,
   out |-> Shift(SubSeq(in, 5, Len(in)), 254)]

LZ4Block(content) == <<Len(content) % 256>> \o Shift(content, 3)

LZ4_decompress_safe(in) ==
  [ok |-> Len(in) >= 1 /\ in[1] = (Len(in) - 1) % 256,
   out |-> Shift(SubSeq(in, 2, Len(in)), 253)]

\* what a buffer of outSize bytes holds after content was written into it
\* from its start, pass after pass, the rest as it was (old)
WrittenInto(content, outSize, old) ==
  [i \in 1..outSize |->
     IF i <= Len(content) THEN content[((Len(content) - i) \div outSize) * outSize + i]
     ELSE old[i]]

(***************************************************************************)
(* Archive::decompress.  inBuffer holds inSize bytes; code and outSize are  *)
(* the values of the reference arguments result and outSize before the      *)
(* call.  The value is [result, null, buffer, outSize, escaped, fault]:     *)
(* the reference arguments after the call and the buffer returned (null:    *)
(* an empty shared_array).  With outSize 0 the size is taken from the       *)
(* first four bytes of the buffer; with fewer than four bytes there the     *)
(* read runs past the buffer and inSize wraps around.  A size no            *)
(* allocation delivers ends the call with std::bad_alloc.                   *)
(***************************************************************************)
decompress(inBuffer, code, outSize, heap, ub) ==
  LET sized == outSize # 0
      size == IF sized THEN outSize ELSE LEValue(SubSeq(inBuffer, 1, 4))
      in == IF sized THEN inBuffer ELSE SubSeq(inBuffer, 5, Len(inBuffer))
      Null(r, n) == [result |-> r, null |-> TRUE, buffer |-> <<>>, outSize |-> n,
                      escaped |-> FALSE, fault |-> FALSE]
      Inflated(got) ==
        IF got.ok
        THEN [Null(code, size) EXCEPT
                !.null = FALSE,
                !.buffer = WrittenInto(got.out, size, Uninitialized(size, heap))]
        ELSE Null("ERROR_INVALIDDATA", size)
  IN IF ~sized /\ Len(inBuffer) < 4
     THEN IF ub = "fault" THEN [Null(code, 0) EXCEPT !.fault = TRUE]
          ELSE Null("ERROR_INVALIDDATA", 0)
     ELSE IF Len(in) = 0 \/ size = 0 THEN Null(code, size)
     ELSE IF size >= TooBig THEN [Null(code, size) EXCEPT !.escaped = TRUE]
     ELSE Inflated(inflate(in))

(***************************************************************************)
(* Archive::getDDSHeader and Archive::getDX10Header.  The DXGI format       *)
(* codes, the DDS flag values, the DDSPF_ pixel formats and the layout of   *)
(* DDS_HEADER and DDS_HEADER_DXT10 come from dxgiformat.h and DDS.h,        *)
(* outside the sources at hand.  A 32-bit value that may pass 2^31 is kept  *)
(* as its two 16-bit halves [hi, lo]; a bit mask is kept as its four bytes. *)
(***************************************************************************)
DXGI_FORMAT_R8G8B8A8_UNORM == 28
DXGI_FORMAT_R8_UNORM == 61
DXGI_FORMAT_BC1_UNORM == 71
DXGI_FORMAT_BC1_UNORM_SRGB == 72
DXGI_FORMAT_BC2_UNORM == 74
DXGI_FORMAT_BC2_UNORM_SRGB == 75
DXGI_FORMAT_BC3_UNORM == 77
DXGI_FORMAT_BC3_UNORM_SRGB == 78
DXGI_FORMAT_BC4_UNORM == 80
DXGI_FORMAT_BC5_UNORM == 83
DXGI_FORMAT_BC5_SNORM == 84
DXGI_FORMAT_B8G8R8A8_UNORM == 87
DXGI_FORMAT_B8G8R8X8_UNORM == 88
DXGI_FORMAT_BC7_UNORM == 98
DXGI_FORMAT_BC7_UNORM_SRGB == 99

\* DDS_HEADER_FLAGS_TEXTURE | DDS_HEADER_FLAGS_LINEARSIZE | DDS_HEADER_FLAGS_MIPMAP
DDS_HEADER_FLAGS == 4103 + 524288 + 131072
\* DDS_SURFACE_FLAGS_TEXTURE | DDS_SURFACE_FLAGS_MIPMAP
DDS_SURFACE_FLAGS == 4096 + 4194312
DDS_CUBEMAP_ALLFACES == 65024
DDS_FOURCC == 4
DDS_DIMENSION_TEXTURE2D == 3

\* MAKEFOURCC as the four bytes lie in memory
MAKEFOURCC(a, b, c, d) == <<a, b, c, d>>

\* a mask with all bits of byte k set (k counts from 1 at the low byte); 0: none
Mask(k) == [i \in 1..4 |-> IF i = k THEN 255 ELSE 0]

PixelFormat(size, flags, fourCC, bits, r, g, b, a) ==
  [size |-> size, flags |-> flags, fourCC |-> fourCC, RGBBitCount |-> bits,
   RBitMask |-> Mask(r), GBitMask |-> Mask(g), BBitMask |-> Mask(b), ABitMask |-> Mask(a)]

NoFourCC == MAKEFOURCC(0, 0, 0, 0)

\* DDS_PIXELFORMAT = {}
ZeroPixelFormat == PixelFormat(0, 0, NoFourCC, 0, 0, 0, 0, 0)

DDSPF_DXT1 == PixelFormat(32, DDS_FOURCC, MAKEFOURCC(68, 88, 84, 49), 0, 0, 0, 0, 0)
DDSPF_DXT3 == PixelFormat(32, DDS_FOURCC, MAKEFOURCC(68, 88, 84, 51), 0, 0, 0, 0, 0)
DDSPF_DXT5 == PixelFormat(32, DDS_FOURCC, MAKEFOURCC(68, 88, 84, 53), 0, 0, 0, 0, 0)
DDSPF_BC4_UNORM == PixelFormat(32, DDS_FOURCC, MAKEFOURCC(66, 67, 52, 85), 0, 0, 0, 0, 0)
DDSPF_BC5_SNORM == PixelFormat(32, DDS_FOURCC, MAKEFOURCC(66, 67, 53, 83), 0, 0, 0, 0, 0)
DDSPF_DX10 == PixelFormat(32, DDS_FOURCC, MAKEFOURCC(68, 88, 49, 48), 0, 0, 0, 0, 0)
\* DDS_RGBA is 0x41, DDS_RGB 0x40, DDS_LUMINANCE 0x20000
DDSPF_A8R8G8B8 == PixelFormat(32, 65, NoFourCC, 32, 3, 2, 1, 4)
DDSPF_A8B8G8R8 == PixelFormat(32, 65, NoFourCC, 32, 1, 2, 3, 4)
DDSPF_X8B8G8R8 == PixelFormat(32, 64, NoFourCC, 32, 1, 2, 3, 0)
DDSPF_L8 == PixelFormat(32, 131072, NoFourCC, 8, 1, 0, 0, 0)

\* a natural number below 2^34 as [hi, lo], lo its low 16 bits
Halves(hi, lo) == [hi |-> hi + lo \div 65536, lo |-> lo % 65536]

\* the product of two 16-bit values
Mul16(w, h) == Halves(((w \div 256) * h) \div 256,
                      (w % 256) * h + (((w \div 256) * h) % 256) * 256)

Times4(v) == Halves(4 * v.hi, 4 * v.lo)

\* int arithmetic leaves its range at 2^31
IntOverflow(v) == v.hi >= 32768

\* (int)v / 2 for a value that is in or wrapped into the range of int, as
\* the unsigned value the assignment to pitchOrLinearSize stores
Negate32(v) == [hi |-> (65535 - v.hi + (IF v.lo = 0 THEN 1 ELSE 0)) % 65536,
                lo |-> (65536 - v.lo) % 65536]

HalfOf(v) == [hi |-> v.hi \div 2, lo |-> v.lo \div 2 + (v.hi % 2) * 32768]

IntHalf(v) == IF v.hi < 32768 THEN HalfOf(v) ELSE Negate32(HalfOf(Negate32(v)))

\* the value wrapped to 32 bits
Wrap32(v) == [hi |-> v.hi % 65536, lo |-> v.lo]

ZeroHalves == Halves(0, 0)

DDS_HEADER(size, flags, height, width, pitch, mipMapCount, ddspf, caps, caps2) ==
  [size |-> size, flags |-> flags, height |-> height, width |-> width,
   pitchOrLinearSize |-> pitch, mipMapCount |-> mipMapCount, ddspf |-> ddspf,
   caps |-> caps, caps2 |-> caps2]

\* DDS_HEADER = {}
ZeroHeader == DDS_HEADER(0, 0, 0, 0, ZeroHalves, 0, ZeroPixelFormat, 0, 0)

\* the pixel format and, as [kind, factor], the pitch the switch assigns:
\* width * height / 2, width * height * factor, or none
FormatCase(format) ==
  CASE format \in {DXGI_FORMAT_BC1_UNORM, DXGI_FORMAT_BC1_UNORM_SRGB} ->
         [ddspf |-> DDSPF_DXT1, pitch |-> "half", isDX10 |-> FALSE]
    [] format \in {DXGI_FORMAT_BC2_UNORM, DXGI_FORMAT_BC2_UNORM_SRGB} ->
         [ddspf |-> DDSPF_DXT3, pitch |-> "one", isDX10 |-> FALSE]
    [] format \in {DXGI_FORMAT_BC3_UNORM, DXGI_FORMAT_BC3_UNORM_SRGB} ->
         [ddspf |-> DDSPF_DXT5, pitch |-> "one", isDX10 |-> FALSE]
    [] format = DXGI_FORMAT_BC4_UNORM ->
         [ddspf |-> DDSPF_BC4_UNORM, pitch |-> "one", isDX10 |-> FALSE]
    [] format = DXGI_FORMAT_BC5_UNORM ->
         [ddspf |-> PixelFormat(32, DDS_FOURCC, MAKEFOURCC(65, 84, 73, 50), 0, 0, 0, 0, 0),
          pitch |-> "one", isDX10 |-> FALSE]
    [] format = DXGI_FORMAT_BC5_SNORM ->
         [ddspf |-> DDSPF_BC5_SNORM, pitch |-> "one", isDX10 |-> FALSE]
    [] format \in {DXGI_FORMAT_BC7_UNORM, DXGI_FORMAT_BC7_UNORM_SRGB} ->
         [ddspf |-> DDSPF_DX10, pitch |-> "one", isDX10 |-> TRUE]
    [] format = DXGI_FORMAT_R8G8B8A8_UNORM ->
         [ddspf |-> DDSPF_A8R8G8B8, pitch |-> "four", isDX10 |-> FALSE]
    [] format = DXGI_FORMAT_B8G8R8A8_UNORM ->
         [ddspf |-> DDSPF_A8B8G8R8, pitch |-> "four", isDX10 |-> FALSE]
    [] format = DXGI_FORMAT_B8G8R8X8_UNORM ->
         [ddspf |-> DDSPF_X8B8G8R8, pitch |-> "none", isDX10 |-> FALSE]
    [] format = DXGI_FORMAT_R8_UNORM ->
         [ddspf |-> DDSPF_L8, pitch |-> "one", isDX10 |-> FALSE]
    [] OTHER -> [ddspf |-> ZeroPixelFormat, pitch |-> "default", isDX10 |-> FALSE]

\* width * height [* 4] [/ 2] computed in int: [overflow, value]
PitchOf(kind, width, height) ==
  LET wh == Mul16(width, height)
  IN CASE kind = "half" -> [overflow |-> IntOverflow(wh), value |-> IntHalf(Wrap32(wh))]
       [] kind = "one" -> [overflow |-> IntOverflow(wh), value |-> Wrap32(wh)]
       [] kind = "four" -> [overflow |-> IntOverflow(wh) \/ IntOverflow(Times4(wh)),
                            value |-> Wrap32(Times4(wh))]
       [] OTHER -> [overflow |-> FALSE, value |-> ZeroHalves]

\* [fault, header, isDX10, dxgiFormat]: the header returned and the two
\* reference arguments after the call.  unknown2 is an unsigned char.
getDDSHeader(file, ub) ==
  LET th == file.m_TextureHeader
      fc == FormatCase(th.format)
      pitch == PitchOf(fc.pitch, th.width, th.height)
  IN [fault |-> pitch.overflow /\ ub = "fault",
      header |-> IF fc.pitch = "default" THEN ZeroHeader
                 ELSE DDS_HEADER(124, DDS_HEADER_FLAGS, th.height, th.width, pitch.value,
                                 th.mipCount, fc.ddspf, DDS_SURFACE_FLAGS,
                                 IF th.unknown2 = 2049 THEN DDS_CUBEMAP_ALLFACES ELSE 0),
      isDX10 |-> fc.isDX10,
      dxgiFormat |-> IF fc.isDX10 THEN th.format ELSE 0]

\* [dxgiFormat, resourceDimension, miscFlag, arraySize, miscFlags2]
getDX10Header(dxgiFormat) ==
  [dxgiFormat |-> dxgiFormat, resourceDimension |-> DDS_DIMENSION_TEXTURE2D,
   miscFlag |-> 0, arraySize |-> 1, miscFlags2 |-> 0]

\* the bytes of the two structs as memcpy takes them
HalvesBytes(v) == LE(v.lo, 2) \o LE(v.hi, 2)

PixelFormatBytes(pf) ==
  LE(pf.size, 4) \o LE(pf.flags, 4) \o pf.fourCC \o LE(pf.RGBBitCount, 4)
  \o pf.RBitMask \o pf.GBitMask \o pf.BBitMask \o pf.ABitMask

DDSHeaderBytes(h) ==
  LE(h.size, 4) \o LE(h.flags, 4) \o LE(h.height, 4) \o LE(h.width, 4)
  \o HalvesBytes(h.pitchOrLinearSize) \o LE(0, 4) \o LE(h.mipMapCount, 4) \o Zeros(44)
  \o PixelFormatBytes(h.ddspf) \o LE(h.caps, 4) \o LE(h.caps2, 4) \o Zeros(12)

DX10HeaderBytes(h) ==
  LE(h.dxgiFormat, 4) \o LE(h.resourceDimension, 4) \o LE(h.miscFlag, 4)
  \o LE(h.arraySize, 4) \o LE(h.miscFlags2, 4)

\* "DDS ", the header, and the DX10 header if isDX10
DDSPrefix(dds) ==
  <<68, 68, 83, 32>> \o DDSHeaderBytes(dds.header)
  \o (IF dds.isDX10 THEN DX10HeaderBytes(getDX10Header(dds.dxgiFormat)) ELSE <<>>)

(***************************************************************************)
(* Archive::extractDirect, Archive::extractCompressed and Archive::extract *)
(* on the archive file s.  The value is [result, out]: the code returned,   *)
(* or "escaped" for an exception leaving the call and "fault" for a         *)
(* crashed process, and the bytes written to the output file.               *)
(***************************************************************************)
CHUNK_SIZE == 128 * 1024

Min(a, b) == IF a < b THEN a ELSE b

Extracted(code, out) == [result |-> code, out |-> out]

\* the loop that ends extractDirect: sizeLeft bytes more are read through
\* inBuffer and written, chunk by chunk.  inBuffer is the part of the buffer
\* the loop uses.
RECURSIVE CopyLoop(_, _, _, _)
CopyLoop(s, st, sizeLeft, inBuffer) ==
  IF sizeLeft = 0 THEN <<>>
  ELSE LET chunkSize == Min(sizeLeft, CHUNK_SIZE)
           Then(got) == got.bytes \o CopyLoop(s, got.st, sizeLeft - chunkSize, got.bytes)
       IN Then(RawRead(s, st, chunkSize, SubSeq(inBuffer, 1, chunkSize)))

\* the chunk loop of extractDirect: [out, st]
RECURSIVE DirectChunks(_, _, _, _)
DirectChunks(s, st, chunks, heap) ==
  IF chunks = <<>> THEN [out |-> <<>>, st |-> st]
  ELSE LET length == Head(chunks).unpackedSize
           Then(got, more) == [out |-> got.bytes \o more.out, st |-> more.st]
           Read1(got) == Then(got, DirectChunks(s, got.st, Tail(chunks), heap))
       IN Read1(RawRead(s, st, length, Uninitialized(length, heap)))

\* a new buffer of n bytes after an LZ4 decoder ran on it: the decoded bytes
\* that fit, none if the decoder gave up, the rest of the buffer untouched
Filled(got, n, heap) ==
  WrittenInto(IF got.ok THEN SubSeq(got.out, 1, Min(Len(got.out), n)) ELSE <<>>, n,
              Uninitialized(n, heap))

AnyTooBig(chunks) ==
  \E i \in DOMAIN chunks : chunks[i].packedSize >= TooBig \/ chunks[i].unpackedSize >= TooBig

extractDirect(s, file, heap, ub) ==
  LET st0 == seekg(Stream(0), file.m_DataOffset)
      \* the first copy wrote `first` and left the stream at st
      Rest(first, st) ==
        Extracted("ERROR_NONE",
                  first \o CopyLoop(s, st, file.m_FileSize,
                                    Uninitialized(Min(file.m_FileSize, CHUNK_SIZE), heap)))
      Copied(got) == Rest(got.bytes, got.st)
      Plain(st, size) ==
        IF size >= TooBig THEN Extracted("escaped", <<>>)
        ELSE Copied(RawRead(s, st, size, Uninitialized(size, heap)))
      Texture(dds, got) ==
        IF dds.fault THEN Extracted("fault", <<>>)
        ELSE Rest(DDSPrefix(dds) \o got.out, got.st)
      Prefixed(fullName) ==
        IF fullName.exc THEN Extracted("escaped", <<>>)
        ELSE IF file.m_FileSize <= Len(fullName.str) THEN Extracted("ERROR_NONE", <<>>)
        ELSE Plain(fullName.st, file.m_FileSize - (Len(fullName.str) + 1))
  IN IF file.m_FileSize = 0 THEN Extracted("ERROR_NONE", <<>>)
     ELSE IF file.m_FileSize >= TooBig THEN Extracted("escaped", <<>>)
     ELSE IF IsBA2Type(m_Type)
     THEN IF file.m_TextureChunks = <<>> THEN Plain(st0, file.m_UncompressedFileSize)
          ELSE IF AnyTooBig(file.m_TextureChunks) THEN Extracted("escaped", <<>>)
          ELSE Texture(getDDSHeader(file, ub),
                       DirectChunks(s, st0, file.m_TextureChunks, heap))
     ELSE IF namePrefixed THEN Prefixed(readBString(s, st0))
     ELSE Plain(st0, file.m_FileSize)

\* outFile.write(buffer.get(), length) after decompress left result at
\* ERROR_NONE: an empty shared_array gives a null pointer to write from
WriteDecompressed(d, ub) ==
  IF d.fault THEN Extracted("fault", <<>>)
  ELSE IF d.escaped THEN Extracted("escaped", <<>>)
  ELSE IF d.result # "ERROR_NONE" THEN Extracted(d.result, <<>>)
  ELSE IF ~d.null THEN Extracted("ERROR_NONE", d.buffer)
  ELSE IF d.outSize = 0 \/ ub = "benign" THEN Extracted("ERROR_NONE", <<>>)
  ELSE Extracted("fault", <<>>)

\* the chunk loop of extractCompressed, result being `code` before the
\* chunk: [result, out]
RECURSIVE CompressedChunks(_, _, _, _, _, _)
CompressedChunks(s, st, chunks, code, heap, ub) ==
  IF chunks = <<>> THEN Extracted(code, <<>>)
  ELSE LET length == Head(chunks).unpackedSize
           packedSize == Head(chunks).packedSize
           Then(wrote, more) ==
             IF wrote.result \in {"fault", "escaped"} THEN wrote
             ELSE Extracted(more.result, wrote.out \o more.out)
           Go(wrote, st1) ==
             IF wrote.result \in {"fault", "escaped"} THEN wrote
             ELSE Then(wrote, CompressedChunks(s, st1, Tail(chunks), wrote.result, heap, ub))
           LZ4(got, st1) == Go(Extracted(code, Filled(got, length, heap)), st1)
           Unpack(chunk) ==
             IF m_Type = TYPE_STARFIELD_LZ4_TEXTURE
             THEN LZ4(LZ4_decompress_safe(chunk.bytes), chunk.st)
             ELSE Go(WriteDecompressed(decompress(chunk.bytes, code, length, heap, ub), ub),
                     chunk.st)
       IN Unpack(RawRead(s, st, packedSize, Uninitialized(packedSize, heap)))

extractCompressed(s, file, heap, ub) ==
  LET st0 == seekg(Stream(0), file.m_DataOffset)
      Inflate(got, length) ==
        WriteDecompressed(decompress(got.bytes, "ERROR_NONE", length, heap, ub), ub)
      Texture(dds, wrote) ==
        IF dds.fault THEN Extracted("fault", <<>>)
        ELSE IF wrote.result \in {"fault", "escaped"} THEN wrote
        ELSE Extracted(wrote.result, DDSPrefix(dds) \o wrote.out)
      \* LZ4F_decompress fills what it can of outBuffer; its value is dropped
      FrameIn(got, outSize) ==
        Extracted("ERROR_NONE", Filled(LZ4F_decompress(got.bytes), outSize, heap))
      \* readType<BSAULong> and the read of inSize - 4 bytes
      SkyrimSE(st, inSize) ==
        IF ~CanRead(s, st, 4) THEN Extracted("escaped", <<>>)
        ELSE IF Field(s, st.pos, 4) >= TooBig \/ inSize < 4 THEN Extracted("escaped", <<>>)
        ELSE FrameIn(RawRead(s, Skip(st, 4), inSize - 4, Uninitialized(inSize - 4, heap)),
                     Field(s, st.pos, 4))
      Older(st, inSize) ==
        IF m_Type = TYPE_SKYRIMSE THEN SkyrimSE(st, inSize)
        ELSE Inflate(RawRead(s, st, inSize, Uninitialized(inSize, heap)), 0)
      Prefixed(fullName) ==
        IF fullName.exc THEN Extracted("escaped", <<>>)
        ELSE IF file.m_FileSize <= Len(fullName.str) THEN Extracted("ERROR_NONE", <<>>)
        ELSE Older(fullName.st, file.m_FileSize - (Len(fullName.str) + 1))
  IN IF file.m_FileSize = 0 THEN Extracted("ERROR_NONE", <<>>)
     ELSE IF file.m_FileSize >= TooBig THEN Extracted("escaped", <<>>)
     ELSE IF IsBA2Type(m_Type)
     THEN IF file.m_TextureChunks = <<>>
          THEN Inflate(RawRead(s, st0, file.m_FileSize, Uninitialized(file.m_FileSize, heap)),
                       file.m_UncompressedFileSize)
          ELSE IF AnyTooBig(file.m_TextureChunks) THEN Extracted("escaped", <<>>)
          ELSE Texture(getDDSHeader(file, ub),
                       CompressedChunks(s, st0, file.m_TextureChunks, "ERROR_NONE", heap, ub))
     ELSE IF namePrefixed THEN Prefixed(readBString(s, st0))
     ELSE Older(st0, file.m_FileSize)

\* the output file opens (canOpen) or ERROR_ACCESSFAILED is returned
extract(s, file, canOpen, heap, ub) ==
  IF ~canOpen THEN Extracted("ERROR_ACCESSFAILED", <<>>)
  ELSE IF compressed(file) THEN extractCompressed(s, file, heap, ub)
  ELSE extractDirect(s, file, heap, ub)

(***************************************************************************)
(* Archive::extractAll, file by file: what Archive::readFiles puts in the   *)
(* queue for a file and what Archive::extractFiles writes from it.  The     *)
(* stream m_File goes from one file to the next as the reader left it.  An  *)
(* exception that leaves a thread function ends the process ("escaped").    *)
(***************************************************************************)
\* memcpy(chunkData + currentPos, bytes, Len(bytes)) within the buffer
CopiedAt(chunkData, currentPos, bytes) ==
  [i \in 1..Len(chunkData) |->
     IF i > currentPos /\ i <= currentPos + Len(bytes) THEN bytes[i - currentPos]
     ELSE chunkData[i]]

\* what the reader made of a file: queued with its data, skipped, or the
\* end of the process
ReaderGave(kind, file, data, st) == [kind |-> kind, file |-> file, data |-> data, st |-> st]

\* the chunk loop of readFiles; m_UncompressedFileSize is usize so far
RECURSIVE ReaderChunks(_, _, _, _, _, _, _, _)
ReaderChunks(s, st, file, chunks, chunkData, currentPos, heap, ub) ==
  IF chunks = <<>>
  THEN ReaderGave("queued", [file EXCEPT !.m_FileSize = 0], chunkData, st)
  ELSE LET length == Head(chunks).unpackedSize
           packedSize == Head(chunks).packedSize
           Then(bytes, len, counted, st1) ==
             IF currentPos + len > Len(chunkData) /\ ub = "fault"
             THEN ReaderGave("fault", file, <<>>, st1)
             ELSE ReaderChunks(s, st1,
                             [file EXCEPT !.m_UncompressedFileSize = @ + counted],
                             Tail(chunks), CopiedAt(chunkData, currentPos, bytes),
                             currentPos + len, heap, ub)
           \* catch (const std::exception&) { continue; }
           Caught(st1) ==
             ReaderChunks(s, st1, file, Tail(chunks), chunkData, currentPos, heap, ub)
           Inflated(d, st1) ==
             IF d.fault THEN ReaderGave("fault", file, <<>>, st1)
             ELSE IF d.escaped THEN Caught(st1)
             ELSE IF ~d.null THEN Then(d.buffer, d.outSize, d.outSize, st1)
             ELSE IF d.outSize = 0 \/ ub = "benign" THEN Then(<<>>, d.outSize, d.outSize, st1)
             ELSE ReaderGave("fault", file, <<>>, st1)
           Packed(chunk) ==
             IF m_Type \in {TYPE_FALLOUT4, TYPE_STARFIELD}
             THEN Inflated(decompress(chunk.bytes, "ERROR_NONE", length, heap, ub), chunk.st)
             ELSE Then(Filled(LZ4_decompress_safe(chunk.bytes), length, heap), length,
                       length, chunk.st)
           Raw(chunk) == Then(chunk.bytes, length, 0, chunk.st)
       IN IF packedSize > 0
          THEN Packed(RawRead(s, st, packedSize, Uninitialized(packedSize, heap)))
          ELSE Raw(RawRead(s, st, length, Uninitialized(length, heap)))

\* one iteration of the loop of Archive::readFiles, the stream being st
readFiles(s, st, file, heap, ub) ==
  LET st0 == seekg(st, file.m_DataOffset)
      Data(f, got) == ReaderGave("queued", f, got.bytes, got.st)
      Plain(f, st1, size) ==
        IF size < 0 \/ size >= TooBig THEN ReaderGave("escaped", f, <<>>, st1)
        ELSE Data(f, RawRead(s, st1, size, Uninitialized(size, heap)))
      SkyrimSE(st1, size) ==
        IF ~CanRead(s, st1, 4) THEN ReaderGave("escaped", file, <<>>, st1)
        ELSE Plain([file EXCEPT !.m_UncompressedFileSize = Field(s, st1.pos, 4)],
                   Skip(st1, 4), size - 4)
      Older(st1, size) ==
        IF m_Type = TYPE_SKYRIMSE /\ compressed(file) THEN SkyrimSE(st1, size)
        ELSE Plain(file, st1, size)
      Prefixed(fullName) ==
        IF fullName.exc THEN ReaderGave("escaped", file, <<>>, fullName.st)
        ELSE IF file.m_FileSize <= Len(fullName.str)
        THEN ReaderGave("skipped", file, <<>>, fullName.st)
        ELSE Older(fullName.st, file.m_FileSize - (Len(fullName.str) + 1))
      Chunks(totalSize) ==
        ReaderChunks(s, st0, [file EXCEPT !.m_UncompressedFileSize = 0],
                   file.m_TextureChunks, Uninitialized(totalSize, heap), 0, heap, ub)
  IN IF file.m_FileSize >= TooBig THEN ReaderGave("escaped", file, <<>>, st0)
     ELSE IF ~IsBA2Type(m_Type)
     THEN IF namePrefixed THEN Prefixed(readBString(s, st0))
          ELSE Older(st0, file.m_FileSize)
     ELSE IF file.m_TextureChunks = <<>>
     THEN Plain(file, st0,
                IF file.m_FileSize = 0 THEN file.m_UncompressedFileSize
                ELSE file.m_FileSize)
     ELSE IF AnyTooBig(file.m_TextureChunks) THEN ReaderGave("escaped", file, <<>>, st0)
     ELSE Chunks(TotalUnpackedSize(file.m_TextureChunks))

\* the part of an iteration of Archive::extractFiles after the output file
\* is open: [result, out], result "written" when the iteration came to its
\* end or went on to the next file
extractFiles(file, data, heap, ub) ==
  LET \* a buffer that is not null is written; an exception is caught and the
      \* loop goes on
      Decompressed(d, before) ==
        IF d.fault THEN Extracted("fault", before)
        ELSE IF d.escaped \/ d.null THEN Extracted("written", before)
        ELSE Extracted("written", before \o d.buffer)
      Frame(outSize) ==
        IF outSize >= TooBig THEN Extracted("escaped", <<>>)
        ELSE Extracted("written", Filled(LZ4F_decompress(data), outSize, heap))
      Texture(dds) ==
        IF dds.fault THEN Extracted("fault", <<>>)
        ELSE Extracted("written", DDSPrefix(dds) \o data)
  IN IF ~IsBA2Type(m_Type)
     THEN IF ~compressed(file) THEN Extracted("written", data)
          ELSE IF m_Type # TYPE_SKYRIMSE
          THEN Decompressed(decompress(data, "ERROR_NONE", 0, heap, ub), <<>>)
          ELSE IF file.m_TextureChunks = <<>> THEN Frame(file.m_UncompressedFileSize)
          ELSE Extracted("written", <<>>)
     ELSE IF file.m_TextureChunks # <<>> THEN Texture(getDDSHeader(file, ub))
     ELSE IF file.m_FileSize > 0
     THEN Decompressed(decompress(data, "ERROR_NONE", file.m_UncompressedFileSize,
                                  heap, ub), <<>>)
     ELSE Extracted("written", data)

\* what extractAll leaves for one file of the list: the file as it was, what
\* became of it and the bytes of its target
Target(file, code, out) == [file |-> file, result |-> code, out |-> out]

\* the files of the list from k on; once the process has ended, the files
\* left are not reached
RECURSIVE ExtractAllFrom(_, _, _, _, _, _)
ExtractAllFrom(s, st, list, k, heap, ub) ==
  IF k > Len(list) THEN <<>>
  ELSE LET Ended(code) ==
             <<Target(list[k], code, <<>>)>>
             \o [i \in 1..(Len(list) - k) |-> Target(list[k + i], "not reached", <<>>)]
           Written(wrote, st1) ==
             IF wrote.result \in {"fault", "escaped"} THEN Ended(wrote.result)
             ELSE <<Target(list[k], wrote.result, wrote.out)>>
                  \o ExtractAllFrom(s, st1, list, k + 1, heap, ub)
           Given1(info) ==
             IF info.kind \in {"fault", "escaped"} THEN Ended(info.kind)
             ELSE IF info.kind = "skipped"
             THEN <<Target(list[k], "skipped", <<>>)>>
                  \o ExtractAllFrom(s, info.st, list, k + 1, heap, ub)
             ELSE Written(extractFiles(info.file, info.data, heap, ub), info.st)
       IN Given1(readFiles(s, st, list[k], heap, ub))

\* the orders std::sort(fileList.begin(), fileList.end(), ByOffset) may leave
SortedByOffset(fs) ==
  { [i \in DOMAIN fs |-> fs[l[i]]] :
      l \in { p \in [DOMAIN fs -> DOMAIN fs] :
                /\ Range(p) = DOMAIN fs
                /\ \A i, j \in DOMAIN p : i < j => ~ByOffset(fs[p[j]], fs[p[i]]) } }

(***************************************************************************)
(* The archives files are extracted from: of every older-layout version    *)
(* and flag setting one folder a with a file stored raw (r), one stored     *)
(* packed (z) and one whose packed bytes no decoder accepts (k); general    *)
(* newer-layout archives with the same three files; texture archives with   *)
(* one texture of every format of the table and of two formats outside it,  *)
(* in several sizes.                                                        *)
(***************************************************************************)
Content(n) == [i \in 1..n |-> 200 + i]

Garbage == <<1, 2, 3>>

NameR == <<114>>

NameZ == <<122>>

NameK == <<107>>

InFolderA(name) == <<97, 92>> \o name

\* the full path stored ahead of the data of a name-prefixed file
NamePrefix(version, flags, name) ==
  IF version # 103 /\ HasFlag(flags, FLAG_NAMEPREFIXED)
  THEN <<Len(InFolderA(name))>> \o InFolderA(name)
  ELSE <<>>

\* the size of the content and the packed content, as the older layout
\* stores a compressed file
PackedOlder(version, content) ==
  LE(Len(content), 4) \o (IF version = 105 THEN LZ4Frame(content) ELSE ZlibStream(content))

ExtractFolder(version, flags) ==
  LET dc == HasFlag(flags, FLAG_DEFAULTCOMPRESSED)
      File(name, stored, content, toggle) ==
        StoredFile(name, NamePrefix(version, flags, name) \o stored, content, Len(content),
                   TRUE, toggle, NoTextureHeader)
  IN << GivenFolder(<<97>>,
          << File(NameR, Content(3), Content(3), dc),
             File(NameZ, PackedOlder(version, Content(2)), Content(2), ~dc),
             File(NameK, LE(2, 4) \o Garbage, Content(2), ~dc) >>) >>

ExtractGiven(kind, entries, chunks, enc) ==
  [kind |-> kind, bytes |-> enc.bytes, parsed |-> enc.parsed, whole |-> TRUE,
   entries |-> entries, chunks |-> chunks]

OlderFlagSettings ==
  { FLAG_HASDIRNAMES + FLAG_HASFILENAMES + c + p :
      c \in {0, FLAG_DEFAULTCOMPRESSED}, p \in {0, FLAG_NAMEPREFIXED} }

OlderExtractGivens ==
  { ExtractGiven("older", GivenFilesOf(ExtractFolder(v, f)), 0,
                 EncodeOlder(v, f, ExtractFolder(v, f))) :
      v \in OlderVersions, f \in OlderFlagSettings }

GeneralFiles ==
  << StoredFile(InFolderA(NameR), Content(3), Content(3), 3, TRUE, FALSE, NoTextureHeader),
     StoredFile(InFolderA(NameZ), ZlibStream(Content(2)), Content(2), 2, TRUE, TRUE,
                NoTextureHeader),
     StoredFile(InFolderA(NameK), Garbage, Content(2), 2, TRUE, TRUE, NoTextureHeader) >>

GeneralExtractGivens ==
  { ExtractGiven("general", GeneralFiles, 0, EncodeGNRL(v, GeneralFiles)) : v \in {1, 2, 3} }

TableFormats ==
  { DXGI_FORMAT_BC1_UNORM, DXGI_FORMAT_BC1_UNORM_SRGB, DXGI_FORMAT_BC2_UNORM,
    DXGI_FORMAT_BC2_UNORM_SRGB, DXGI_FORMAT_BC3_UNORM, DXGI_FORMAT_BC3_UNORM_SRGB,
    DXGI_FORMAT_BC4_UNORM, DXGI_FORMAT_BC5_UNORM, DXGI_FORMAT_BC5_SNORM,
    DXGI_FORMAT_BC7_UNORM, DXGI_FORMAT_BC7_UNORM_SRGB, DXGI_FORMAT_R8G8B8A8_UNORM,
    DXGI_FORMAT_B8G8R8A8_UNORM, DXGI_FORMAT_B8G8R8X8_UNORM, DXGI_FORMAT_R8_UNORM }

\* DXGI_FORMAT_R32G32B32A32_FLOAT and DXGI_FORMAT_BC6H_UF16
OtherFormats == {2, 95}

\* width and height of the given textures
TextureSizes == { <<4, 4>>, <<3, 5>>, <<32768, 32768>>, <<65535, 65535>> }

\* a texture stored in chunks of two content bytes each, packed for the
\* archive version unless `sound` is false; unknown2 is the value its writer
\* meant the record to carry
Texture(version, format, wh, unknown2, sound) ==
  << StoredFile(InFolderA(NameZ),
                IF ~sound THEN Garbage
                ELSE IF version = 3 THEN LZ4Block(Content(2)) ELSE ZlibStream(Content(2)),
                Content(2), 2, TRUE, TRUE,
                TextureHeader(wh[2], wh[1], 1, format, unknown2)) >>

TextureGiven(version, format, wh, unknown2, sound, chunks) ==
  ExtractGiven("texture", Texture(version, format, wh, unknown2, sound), chunks,
               EncodeDX10(version, Texture(version, format, wh, unknown2, sound), chunks))

TextureExtractGivens ==
  { TextureGiven(1, f, wh, 0, TRUE, 1) : f \in TableFormats \cup OtherFormats,
                                          wh \in TextureSizes }
  \cup { TextureGiven(1, DXGI_FORMAT_BC1_UNORM, <<4, 4>>, u, TRUE, 2) : u \in {0, 1, 2049} }
  \cup { TextureGiven(v, f, <<4, 4>>, 0, sound, 2) :
           v \in {2, 3}, f \in {DXGI_FORMAT_BC7_UNORM, 2}, sound \in BOOLEAN }
  \cup { TextureGiven(1, DXGI_FORMAT_BC3_UNORM, <<4, 4>>, 0, FALSE, 1) }

\* a.nif (16 bytes), b\c.dds (32 bytes), b\d.dds (8 bytes)
MorrowindFiles ==
  << StoredFile(<<97, 46, 110, 105, 102>>, Content(16), Content(16), 16, TRUE, FALSE,
                NoTextureHeader),
     StoredFile(<<98, 92, 99, 46, 100, 100, 115>>, Content(32), Content(32), 32, TRUE, FALSE,
                NoTextureHeader),
     StoredFile(<<98, 92, 100, 46, 100, 100, 115>>, Content(8), Content(8), 8, TRUE, FALSE,
                NoTextureHeader) >>

MorrowindExtractGivens ==
  { ExtractGiven("morrowind", MorrowindFiles, 0, EncodeMorrowind(MorrowindFiles)) }

\* archives without a file: an older-layout archive without folders, a
\* Morrowind archive and a general newer-layout archive without entries
EmptyExtractGivens ==
  { ExtractGiven("older", <<>>, 0,
                 EncodeOlder(104, FLAG_HASDIRNAMES + FLAG_HASFILENAMES, <<>>)),
    ExtractGiven("morrowind", <<>>, 0, EncodeMorrowind(<<>>)),
    ExtractGiven("newer", <<>>, 0, EncodeGNRL(1, <<>>)) }

ExtractGivens ==
  OlderExtractGivens \cup GeneralExtractGivens \cup TextureExtractGivens
  \cup MorrowindExtractGivens \cup EmptyExtractGivens

(***************************************************************************)
(* Archive::extract on a file of the tree a read has built.                *)
(***************************************************************************)
ExtractInit ==
  /\ \E g \in ExtractGivens : disk = [src |-> g.bytes, out |-> <<>>, given |-> g]
  /\ testHashes \in BOOLEAN
  /\ build \in UBOutcomes
  /\ ioPc = "fresh" /\ header = <<>> /\ result = "none" /\ firstRead = <<>>
  /\ tree = EmptyTree /\ extractedFile = <<>> /\ inserted = <<>>
  /\ m_Type = TYPE_FALLOUT3
  /\ m_ArchiveFlags = FLAG_HASDIRNAMES + FLAG_HASFILENAMES
  /\ files = <<>> /\ srcData = <<>> /\ filesAtCall = <<>> /\ outDir = <<>>
  /\ overwrite = TRUE
  /\ PipelineIdle

\* the caller picks a file of the tree and an output directory, in which the
\* file can be created or not
Extract ==
  /\ ioPc = "read"
  /\ result \in {"ERROR_NONE", "ERROR_INVALIDHASHES"}
  /\ \E id \in DOMAIN tree, heap \in HeapPatterns, canOpen \in BOOLEAN :
       \E j \in DOMAIN tree[id].m_Files :
         \E r \in {extract(disk.src, tree[id].m_Files[j], canOpen, heap, build)} :
            /\ disk' = [disk EXCEPT !.out = r.out]
            /\ result' = r.result
            /\ extractedFile' = [file |-> tree[id].m_Files[j], opened |-> canOpen]
  /\ ioPc' = "extracted"
  /\ UNCHANGED <<m_Type, m_ArchiveFlags, testHashes, build, header, tree, firstRead,
               inserted, pipeVars>>

\* a File made with every field but name and toggle as the constructor
\* leaves it
ToggledFile(name, toggleCompressed) ==
  NewFile(name, calculateBSAHash(name), 0, toggleCompressed, 0, 0, NoTextureHeader, <<>>)

\* Archive::createFile with the toggle taken as the requested compression
createFileUntoggled(name, sourceName, c) == ToggledFile(name, c)

\* Archive::createFile: new File(name, sourceName, nullptr, toggle)
createFile(name, sourceName, c) == ToggledFile(name, defaultCompressed # c)

\* the caller asks for a new file, to be compressed or not
CreateFile ==
  /\ ioPc = "read"
  /\ result \in {"ERROR_NONE", "ERROR_INVALIDHASHES"}
  /\ \E c \in BOOLEAN :
       extractedFile' = [file |-> createFile(<<110>>, <<115>>, c), opened |-> FALSE,
                         wanted |-> c]
  /\ ioPc' = "created"
  /\ UNCHANGED <<disk, m_Type, m_ArchiveFlags, testHashes, build, header, result, tree,
               firstRead, inserted, pipeVars>>

\* the File objects of a tree, as Folder::collectFiles lists them
RECURSIVE FilesUnder(_, _)
FilesUnder(t, ids) ==
  IF ids = <<>> THEN <<>>
  ELSE t[Head(ids)].m_Files \o FilesUnder(t, t[Head(ids)].m_SubFolders)
       \o FilesUnder(t, Tail(ids))

\* the caller extracts the whole archive into an empty directory, the
\* progress callback returning true
ExtractAllFiles ==
  /\ ioPc = "read"
  /\ result \in {"ERROR_NONE", "ERROR_INVALIDHASHES"}
  /\ \E heap \in HeapPatterns, list \in SortedByOffset(FilesUnder(tree, <<1>>)) :
       \E all \in {ExtractAllFrom(disk.src, Stream(0), list, 1, heap, build)} :
          /\ extractedFile' = [targets |-> all, heap |-> heap, opened |-> FALSE]
          \* with an empty list, *fileList.begin() and the division by the
          \* number of files are undefined
          /\ result' = IF \/ \E k \in DOMAIN all : all[k].result \in {"fault", "escaped"}
                          \/ list = <<>> /\ build = "fault"
                       THEN "fault" ELSE "ERROR_NONE"
  /\ ioPc' = "extractedAll"
  /\ UNCHANGED <<disk, m_Type, m_ArchiveFlags, testHashes, build, header, tree,
               firstRead, inserted, pipeVars>>

ExtractNext == Read \/ Extract \/ CreateFile \/ ExtractAllFiles

ExtractSpec == ExtractInit /\ [][ExtractNext]_vars

\* the given file that was extracted, and the state after extract returned
\* with its output file opened
GivenEntry ==
  CHOOSE e \in Range(disk.given.entries) : filename(e.name) = extractedFile.file.m_Name

HasExtracted == ioPc = "extracted" /\ extractedFile.opened

IsOlderType(t) == t \in {TYPE_OBLIVION, TYPE_FALLOUT3, TYPE_SKYRIMSE}

(***************************************************************************)
(* Properties of extraction.                                               *)
(***************************************************************************)
\* the length of the payload of an older-layout file: its stored size, less
\* the length byte and the characters of the path ahead of the data of a
\* name-prefixed file
PayloadLength(file) ==
  IF namePrefixed THEN file.m_FileSize - (1 + Len(InFolderA(file.m_Name)))
  ELSE file.m_FileSize

\* C11: extract of an uncompressed file of an older-layout archive writes the
\* payload of the file and nothing more: as many bytes as the stored size
\* says, or the stored size less the path prefix in a name-prefixed archive
\* that is not an Oblivion archive.
C11_DirectWritesExactlyPayload ==
  (HasExtracted /\ IsOlderType(m_Type) /\ ~compressed(extractedFile.file))
    => /\ Len(disk.out) = PayloadLength(extractedFile.file)
       /\ disk.out = GivenEntry.content

\* the output starts with the payload: what the first copy of extractDirect
\* writes is right
C11_PayloadWrittenFirst ==
  (HasExtracted /\ IsOlderType(m_Type) /\ ~compressed(extractedFile.file))
    => IsPrefix(GivenEntry.content, disk.out)


\* the extracted file is one whose stored bytes are sound
SoundEntry == extractedFile.file.m_Name # NameK /\ GivenEntry.stored # Garbage

\* C12: extract of a file of a general (GNRL) newer-layout archive, Fallout 4
\* or Starfield, writes exactly unpackedSize bytes: the stored bytes as they
\* are when packedSize is 0, the inflated bytes when it is not.
C12_GeneralWritesUnpacked ==
  (HasExtracted /\ disk.given.kind = "general" /\ SoundEntry)
    => /\ Len(disk.out) = extractedFile.file.m_UncompressedFileSize
       /\ disk.out = GivenEntry.content

\* a packed file of a Fallout 4 general archive is inflated to its content
C12_Fallout4PackedInflated ==
  (HasExtracted /\ disk.given.kind = "general" /\ SoundEntry /\ m_Type = TYPE_FALLOUT4
   /\ extractedFile.file.m_FileSize > 0)
    => disk.out = GivenEntry.content


\* C13: extract returns ERROR_INVALIDDATA whenever decompressing the file
\* fails, whichever decoder the archive calls for: zlib, the LZ4 frame
\* decoder of SkyrimSE, the LZ4 block decoder of Starfield texture chunks.
C13_FailedDecompressionIsInvalidData ==
  (HasExtracted /\ ~SoundEntry) => result = "ERROR_INVALIDDATA"

\* where zlib does the decoding the failure is reported
C13_ZlibFailureIsInvalidData ==
  (HasExtracted /\ ~SoundEntry /\ m_Type \in {TYPE_OBLIVION, TYPE_FALLOUT3, TYPE_FALLOUT4})
    => result = "ERROR_INVALIDDATA"

\* a Starfield texture whose LZ4 chunks do not decode was extracted
C13_StarfieldFailureExtracted ==
  HasExtracted /\ ~SoundEntry /\ m_Type = TYPE_STARFIELD_LZ4_TEXTURE

\* C14: in an archive of the older layout a file is compressed exactly when
\* the default-compressed flag of the archive and the toggle bit of the file
\* differ, and a file made by createFile(name, source, c) is compressed
\* exactly when c is true, whatever the archive flags are.
C14_CompressedIsDefaultXorToggle ==
  /\ (ioPc = "read" /\ IsOlderType(m_Type))
       => \A f \in Range(FilesUnder(tree, <<1>>)) :
            compressed(f) = (HasFlag(m_ArchiveFlags, FLAG_DEFAULTCOMPRESSED)
                               # f.m_ToggleCompressed)
  /\ (ioPc = "created" /\ IsOlderType(m_Type))
       => compressed(extractedFile.file) = extractedFile.wanted

\* an uncompressed file was asked of a default-compressed archive whose tree
\* holds files with and without the toggle bit
C14_CreatedAgainstDefault ==
  /\ ioPc = "created" /\ IsOlderType(m_Type)
  /\ defaultCompressed /\ ~extractedFile.wanted
  /\ extractedFile.file.m_ToggleCompressed
  /\ \E f, g \in Range(FilesUnder(tree, <<1>>)) :
       f.m_ToggleCompressed /\ ~g.m_ToggleCompressed


(***************************************************************************)
(* Properties of the DDS synthesizer, on the textures a read has put in    *)
(* the tree.                                                               *)
(***************************************************************************)
\* a texture archive was read: its one texture and the header made for it
TextureRead ==
  /\ ioPc = "read" /\ result = "ERROR_NONE"
  /\ disk.given.kind = "texture"
  /\ Len(FilesUnder(tree, <<1>>)) = 1

ReadTexture == FilesUnder(tree, <<1>>)[1]

GivenTexture == disk.given.entries[1].tex

\* C15: the DDS header made for a texture record read from an archive has
\* caps2 = DDS_CUBEMAP_ALLFACES exactly when the unknown2 field of the record
\* is 2049, and a record written with 2049 in that field gets the cubemap
\* header.
C15_CubemapIffUnknown2 ==
  TextureRead
    => ((getDDSHeader(ReadTexture, build).header.caps2 = DDS_CUBEMAP_ALLFACES)
          <=> (GivenTexture.unknown2 = 2049))

\* no texture read from an archive gets the cubemap header: the field read
\* is one byte wide
C15_NeverCubemap ==
  TextureRead
    => /\ ReadTexture.m_TextureHeader.unknown2 = GivenTexture.unknown2 % 256
       /\ getDDSHeader(ReadTexture, build).header.caps2 = 0

\* the format table: pixel format, pitch and whether the DX10 extension
\* follows the header
FormatTable(format) ==
  CASE format \in {DXGI_FORMAT_BC1_UNORM, DXGI_FORMAT_BC1_UNORM_SRGB} -> <<DDSPF_DXT1, "W*H/2">>
    [] format \in {DXGI_FORMAT_BC2_UNORM, DXGI_FORMAT_BC2_UNORM_SRGB} -> <<DDSPF_DXT3, "W*H">>
    [] format \in {DXGI_FORMAT_BC3_UNORM, DXGI_FORMAT_BC3_UNORM_SRGB} -> <<DDSPF_DXT5, "W*H">>
    [] format = DXGI_FORMAT_BC4_UNORM -> <<DDSPF_BC4_UNORM, "W*H">>
    [] format = DXGI_FORMAT_BC5_UNORM ->
         << [DDSPF_DXT1 EXCEPT !.fourCC = MAKEFOURCC(65, 84, 73, 50)], "W*H" >>
    [] format = DXGI_FORMAT_BC5_SNORM -> <<DDSPF_BC5_SNORM, "W*H">>
    [] format \in {DXGI_FORMAT_BC7_UNORM, DXGI_FORMAT_BC7_UNORM_SRGB} -> <<DDSPF_DX10, "W*H">>
    [] format = DXGI_FORMAT_R8G8B8A8_UNORM -> <<DDSPF_A8R8G8B8, "W*H*4">>
    [] format = DXGI_FORMAT_B8G8R8A8_UNORM -> <<DDSPF_A8B8G8R8, "W*H*4">>
    [] format = DXGI_FORMAT_B8G8R8X8_UNORM -> <<DDSPF_X8B8G8R8, "0">>
    [] format = DXGI_FORMAT_R8_UNORM -> <<DDSPF_L8, "W*H">>

\* the pitch of the table as a number, in halves
TablePitch(kind, w, h) ==
  CASE kind = "W*H/2" -> HalfOf(Mul16(w, h))
    [] kind = "W*H" -> Mul16(w, h)
    [] kind = "W*H*4" -> Times4(Mul16(w, h))
    [] OTHER -> ZeroHalves

IsBC7(format) == format \in {DXGI_FORMAT_BC7_UNORM, DXGI_FORMAT_BC7_UNORM_SRGB}

MatchesTable(th, dds) ==
  /\ ~dds.fault
  /\ dds.header.ddspf = FormatTable(th.format)[1]
  /\ dds.header.pitchOrLinearSize = TablePitch(FormatTable(th.format)[2], th.width, th.height)
  /\ dds.isDX10 = IsBC7(th.format)
  /\ Len(DDSPrefix(dds)) = 4 + 124 + (IF IsBC7(th.format) THEN 20 ELSE 0)
  /\ IsBC7(th.format)
       => SubSeq(DDSPrefix(dds), 129, 148)
            = LE(th.format, 4) \o LE(DDS_DIMENSION_TEXTURE2D, 4) \o LE(0, 4) \o LE(1, 4)
              \o LE(0, 4)

\* C16: for every format of the format table and every width W and height H
\* the synthesizer gives the pixel format and the pitch of the table (BC1:
\* W*H/2; BC2, BC3, BC4, BC5, BC7, R8: W*H; R8G8B8A8, B8G8R8A8: W*H*4;
\* B8G8R8X8: 0), and the 20-byte DX10 extension, with dxgiFormat the format
\* of the record, follows the header exactly for the two BC7 formats.
C16_TableFormatAndPitch ==
  (TextureRead /\ ReadTexture.m_TextureHeader.format \in TableFormats)
    => MatchesTable(ReadTexture.m_TextureHeader, getDDSHeader(ReadTexture, build))

\* the same for textures whose W*H*4 is within the range of int
C16_TableWithinInt ==
  (TextureRead /\ ReadTexture.m_TextureHeader.format \in TableFormats
   /\ ~IntOverflow(Times4(Mul16(ReadTexture.m_TextureHeader.width,
                                ReadTexture.m_TextureHeader.height))))
    => MatchesTable(ReadTexture.m_TextureHeader, getDDSHeader(ReadTexture, build))

\* C17: for a texture whose format is not in the format table the
\* synthesizer yields an empty buffer: extract writes no DDS header bytes to
\* the output file.
C17_UnlistedFormatNoHeader ==
  (HasExtracted /\ disk.given.kind = "texture"
   /\ extractedFile.file.m_TextureHeader.format \notin TableFormats)
    => ~IsPrefix(<<68, 68, 83, 32>>, disk.out)

\* what extract does write for such a texture: "DDS " and 124 zero bytes
C17_UnlistedFormatZeroHeader ==
  (HasExtracted /\ disk.given.kind = "texture" /\ result = "ERROR_NONE"
   /\ extractedFile.file.m_TextureHeader.format \notin TableFormats)
    => IsPrefix(<<68, 68, 83, 32>> \o Zeros(124), disk.out)


(***************************************************************************)
(* Insertions into a folder tree, one after another from the empty tree:   *)
(* a folder of an older-layout folder record (Folder::addFolder on a file,  *)
(* which reads the record and hands it to addFolderInt), a file by its      *)
(* path (Folder::addFolderFromFile) and a folder by name                    *)
(* (Folder::addFolder).                                                     *)
(***************************************************************************)
MaxInsertions == 3

MaxFolders == 6

\* a, a\b, a\b\c, b
RecordPaths == { <<97>>, <<97, 92, 98>>, <<97, 92, 98, 92, 99>>, <<98>> }

\* a\b\c\x, a/b/c/y, a\b\y, a\x, b\x, x
FilePaths ==
  { <<97, 92, 98, 92, 99, 92, 120>>, <<97, 47, 98, 47, 99, 47, 121>>, <<97, 92, 98, 92, 121>>,
    <<97, 92, 120>>, <<98, 92, 120>>, <<120>> }

\* a, d
FolderNames == { <<97>>, <<100>> }

\* Folder::addFolder(const std::string&): [t, id]
addFolder(t, self, folderName) ==
  [t |-> [Append(t, [NewFolder EXCEPT !.m_Name = folderName, !.m_Parent = self])
            EXCEPT ![self].m_SubFolders = Append(@, Len(t) + 1)],
   id |-> Len(t) + 1]

TreeInit ==
  /\ disk = <<>> /\ testHashes = FALSE
  /\ build \in UBOutcomes
  /\ ioPc = "fresh" /\ header = <<>> /\ result = "none" /\ firstRead = <<>>
  /\ tree = EmptyTree /\ extractedFile = <<>> /\ inserted = <<>>
  /\ m_Type = TYPE_FALLOUT3
  /\ m_ArchiveFlags = FLAG_HASDIRNAMES + FLAG_HASFILENAMES
  /\ files = <<>> /\ srcData = <<>> /\ filesAtCall = <<>> /\ outDir = <<>>
  /\ overwrite = TRUE
  /\ PipelineIdle

CanInsert == result # "fault" /\ Len(inserted) < MaxInsertions

Insertion(op, self, path) == [op |-> op, self |-> self, path |-> path]

\* the tree after a call that returned r, or the crash; the log keeps the
\* folder the call returned
AfterInsertion(r, entry) ==
  /\ Len(r.t) <= MaxFolders
  /\ tree' = r.t
  /\ result' = IF r.fault THEN "fault" ELSE "ERROR_NONE"
  /\ inserted' = Append(inserted, [op |-> entry.op, self |-> entry.self,
                                   path |-> entry.path, id |-> r.id])
  /\ UNCHANGED <<disk, m_Type, m_ArchiveFlags, testHashes, build, ioPc, header, firstRead,
               extractedFile, pipeVars>>

\* the root folder takes the folder of a folder record
AddFolderRecord ==
  /\ CanInsert
  /\ \E path \in RecordPaths :
       \E r \in {addFolderInt(tree, 1, [NewFolder EXCEPT !.m_Name = path], build)} :
          AfterInsertion(r, Insertion("addFolderInt", 1, path))

\* the root folder takes a file by its path
AddFileByPath ==
  /\ CanInsert
  /\ \E path \in FilePaths :
       \E r \in {addFolderFromFile(tree, path, 1, 0, 0, NoTextureHeader, <<>>, build)} :
          AfterInsertion(r, Insertion("addFolderFromFile", 1, path))

\* any folder takes a new subfolder by name
AddFolderByName ==
  /\ CanInsert
  /\ \E self \in DOMAIN tree, folderName \in FolderNames :
       \E r \in {addFolder(tree, self, folderName)} :
          AfterInsertion([t |-> r.t, id |-> r.id, fault |-> FALSE],
                         Insertion("addFolder", self, folderName))

TreeNext == AddFolderRecord \/ AddFileByPath \/ AddFolderByName

TreeSpec == TreeInit /\ [][TreeNext]_vars

\* the names of the folders from the root down to folder id
RECURSIVE NodePath(_, _)
NodePath(t, id) ==
  IF id = 1 \/ t[id].m_Parent = 0 THEN <<>>
  ELSE Append(NodePath(t, t[id].m_Parent), t[id].m_Name)

Prefixes(es) == { SubSeq(es, 1, k) : k \in 1..Len(es) }

FolderSegments(path) == PathElements(parent_path(path))

FileNames(fs) == [j \in DOMAIN fs |-> fs[j].m_Name]

\* two files were inserted by path, both with a folder component, and
\* nothing else
TwoPathInsertions ==
  /\ Len(inserted) = 2 /\ result = "ERROR_NONE"
  /\ \A i \in 1..2 : /\ inserted[i].op = "addFolderFromFile"
                     /\ parent_path(inserted[i].path) # <<>>

\* C18: two files inserted by path whose folder path is a/b/c leave one
\* folder for each of a, b and c, and both files are on the one folder c,
\* the second after the first; in general two path insertions make one
\* folder for every leading sequence of segments of either path, shared
\* ones once.
C18_SharedSegmentsReuseNodes ==
  TwoPathInsertions
    => LET first == FolderSegments(inserted[1].path)
           second == FolderSegments(inserted[2].path)
           wanted == Prefixes(first) \cup Prefixes(second)
           At1(segs) == CHOOSE id \in DOMAIN tree : NodePath(tree, id) = segs
       IN /\ Len(tree) = 1 + Cardinality(wanted)
          /\ { NodePath(tree, id) : id \in DOMAIN tree \ {1} } = wanted
          /\ first = second
               => FileNames(tree[At1(first)].m_Files)
                    = << filename(inserted[1].path), filename(inserted[2].path) >>
          /\ first # second
               => /\ FileNames(tree[At1(first)].m_Files) = << filename(inserted[1].path) >>
                  /\ FileNames(tree[At1(second)].m_Files) = << filename(inserted[2].path) >>

\* a\b\c\x and a/b/c/y were inserted: root, a, b and c, two files on c
C18_TwiceIntoABC ==
  /\ TwoPathInsertions
  /\ FolderSegments(inserted[1].path) = << <<97>>, <<98>>, <<99>> >>
  /\ FolderSegments(inserted[2].path) = << <<97>>, <<98>>, <<99>> >>
  /\ Len(tree) = 4
  /\ Len(tree[4].m_Files) = 2

\* the places of folder id in the child lists of a tree
PlacesOf(t, id) ==
  { <<p, i>> \in (DOMAIN t) \X (1..Len(t)) :
      i \in DOMAIN t[p].m_SubFolders /\ t[p].m_SubFolders[i] = id }

\* C19: after any sequence of insertions (folder records, files by path,
\* folders by name) the root folder has no parent and an empty name, every
\* other folder is in the child list of exactly one folder, once, and that
\* folder is its parent, and every folder in a folder's map of subfolders by
\* first path segment is in the child list of that folder.
C19_TreeWellFormed ==
  /\ tree[1].m_Parent = 0 /\ tree[1].m_Name = <<>>
  /\ PlacesOf(tree, 1) = {}
  /\ \A id \in DOMAIN tree \ {1} :
       /\ Cardinality(PlacesOf(tree, id)) = 1
       /\ \A pl \in PlacesOf(tree, id) : pl[1] = tree[id].m_Parent
  /\ \A p \in DOMAIN tree :
       \A k \in DOMAIN tree[p].m_SubFoldersByName :
         tree[p].m_SubFoldersByName[k].value \in Range(tree[p].m_SubFolders)

\* a tree grown by one insertion of each kind, with a folder made for a
\* middle segment and a folder that is in no map
C19_GrownByEveryInsertion ==
  /\ Len(inserted) = 3 /\ result = "ERROR_NONE"
  /\ { inserted[i].op : i \in 1..3 } = {"addFolderInt", "addFolderFromFile", "addFolder"}
  /\ Len(tree) >= 5
  /\ \E p \in DOMAIN tree :
       Len(tree[p].m_SubFolders) > Len(tree[p].m_SubFoldersByName)


\* a Morrowind archive was read, and read came back
MorrowindRead == ioPc = "read" /\ disk.given.kind = "morrowind"

\* the paths of the files of a given archive that have no folder component
RootLevelNames(entries) ==
  { entries[k].name : k \in { j \in DOMAIN entries : parent_path(entries[j].name) = <<>> } }

\* C20: reading the Morrowind archive with the files a.nif, b\c.dds and
\* b\d.dds builds the tree root -> b -> {c.dds, d.dds} with a.nif on the
\* root folder itself; a file whose path has no folder component is attached
\* to the root folder and not to a child of it.
C20_RootLevelFileOnRoot ==
  MorrowindRead
    => /\ result = "ERROR_NONE"
       /\ Len(tree) = 2
       /\ tree[1].m_SubFolders = <<2>>
       /\ tree[2].m_Name = <<98>> /\ tree[2].m_Parent = 1
       /\ FileNames(tree[2].m_Files) = << <<99, 46, 100, 100, 115>>, <<100, 46, 100, 100, 115>> >>
       /\ Range(FileNames(tree[1].m_Files)) = RootLevelNames(disk.given.entries)

\* what read makes of the archive where it returns: the files with a folder
\* component are on their folder b, and the root folder holds no file
C20_FolderFilesOnFolder ==
  (MorrowindRead /\ result = "ERROR_NONE")
    => /\ tree[1].m_Files = <<>>
       /\ \E id \in DOMAIN tree :
            /\ tree[id].m_Name = <<98>> /\ tree[id].m_Parent = 1
            /\ FileNames(tree[id].m_Files)
                 = << <<99, 46, 100, 100, 115>>, <<100, 46, 100, 100, 115>> >>
       /\ \E id \in DOMAIN tree :
            /\ tree[id].m_Name = <<>> /\ tree[id].m_Parent = 1
            /\ FileNames(tree[id].m_Files) = << <<97, 46, 110, 105, 102>> >>


(***************************************************************************)
(* Properties of the written archive.                                      *)
(***************************************************************************)
\* the folders write emits a record for, and the hash field of record i
WrittenFolders == collectFolders(tree, 1)

WrittenFolderHash(i) == Avail(disk.out, 36 + 16 * (i - 1), 8)

\* C21: the hash field of every folder record write emits is the hash of the
\* full path of the folder, the string written in its folder-name block,
\* whether the folder was read from an older-layout archive, made by the
\* path insertion of a file, or made as a placeholder for a path segment.
C21_FolderRecordHashOfFullPath ==
  ioPc = "written"
    => \A i \in DOMAIN WrittenFolders :
         WrittenFolderHash(i) = calculateBSAHash(getFullPath(tree, WrittenFolders[i]))


(***************************************************************************)
(* Archives of named files, read and written again: the file-flags word.   *)
(***************************************************************************)
MaxNamed == 2

\* m.nif m.dds m.xml m.wav m.mp3 m.txt m.spt m.tex m.ctl, M.NIF, m.Dds,
\* m.nix, nif, m.nif.x
NamedFiles ==
  { <<109>> \o Extensions[k] : k \in DOMAIN Extensions }
  \cup { <<77, 46, 78, 73, 70>>, <<109, 46, 68, 100, 115>>, <<109, 46, 110, 105, 120>>,
         <<110, 105, 102>>, <<109, 46, 110, 105, 102, 46, 120>> }

\* the names of an archive: up to MaxNamed files of folder a
NamedLists == UNION { [1..n -> NamedFiles] : n \in 0..MaxNamed }

InFolder(name) == <<97, 92>> \o name

NamedGivens ==
  { Given("morrowind", <<>>,
          EncodeMorrowind([k \in DOMAIN l |-> GivenFile(InFolder(l[k]), 0, TRUE, FALSE)])) :
      l \in NamedLists }
  \cup { Given("older", <<>>,
               EncodeOlder(104, FLAG_HASDIRNAMES + FLAG_HASFILENAMES,
                           << GivenFolder(<<97>>,
                                [k \in DOMAIN l |-> GivenFile(l[k], 0, TRUE, FALSE)]) >>)) :
           l \in NamedLists \ {<<>>} }

NamedInit ==
  /\ \E g \in NamedGivens : disk = [src |-> g.bytes, out |-> <<>>, given |-> g]
  /\ testHashes = FALSE
  /\ build \in UBOutcomes
  /\ ioPc = "fresh" /\ header = <<>> /\ result = "none" /\ firstRead = <<>>
  /\ tree = EmptyTree /\ extractedFile = <<>> /\ inserted = <<>>
  /\ m_Type = TYPE_FALLOUT3
  /\ m_ArchiveFlags = FLAG_HASDIRNAMES + FLAG_HASFILENAMES
  /\ files = <<>> /\ srcData = <<>> /\ filesAtCall = <<>> /\ outDir = <<>>
  /\ overwrite = TRUE
  /\ PipelineIdle

NamedSpec == NamedInit /\ [][IoNext]_vars

\* bit i of the file-flags word of the written header
WrittenFileFlag(i) == (disk.out[33 + (i \div 8)] \div (2 ^ (i % 8))) % 2

\* the name, in lower case, ends in the extension of bit i
EndsInExtension(name, i) ==
  /\ Len(name) >= 4
  /\ [k \in 1..4 |-> ToLower(name[Len(name) - 4 + k])] = Extensions[i + 1]

\* some file of the tree has such a name
SomeFileEndsWith(i) ==
  \E id \in DOMAIN tree : \E j \in DOMAIN tree[id].m_Files :
     EndsInExtension(tree[id].m_Files[j].m_Name, i)

RECURSIVE Route(_, _)
Route(t, id) ==
  IF id = 1 \/ t[id].m_Parent = 0 THEN <<>>
  ELSE Append(Route(t, t[id].m_Parent),
              CHOOSE k \in DOMAIN t[t[id].m_Parent].m_SubFolders :
                t[t[id].m_Parent].m_SubFolders[k] = id)

\* a parent before its children, an earlier child before a later one
RouteBefore(a, b) ==
  \E k \in 0..Len(a) :
     /\ k <= Len(b)
     /\ SubSeq(a, 1, k) = SubSeq(b, 1, k)
     /\ \/ k = Len(a) /\ k < Len(b)
        \/ k < Len(a) /\ k < Len(b) /\ a[k + 1] < b[k + 1]

FoldersWithFiles == { id \in DOMAIN tree : tree[id].m_Files # <<>> }

CollectedInOrder ==
  LET fs == collectFolders(tree, 1)
  IN /\ Range(fs) = FoldersWithFiles
     /\ collectFolderNames(tree, 1) = [i \in DOMAIN fs |-> getFullPath(tree, fs[i])]
     /\ \A i, j \in DOMAIN fs :
          i < j => RouteBefore(Route(tree, fs[i]), Route(tree, fs[j]))

\* a folder keeps the subfolders it has, in their order, and takes new ones
\* at the end
SubFoldersAppended ==
  \A id \in DOMAIN tree :
     id \in DOMAIN tree' /\ IsPrefix(tree[id].m_SubFolders, tree'[id].m_SubFolders)

ExtractorEndsIteration == extractPc = "write" /\ extractPc' = "wait"

OnlyRecords == \A j \in DOMAIN inserted : inserted[j].op = "addFolderInt"

\* C25: after any sequence of folder records inserted into the root, in any
\* order, the full path of the folder of every record is the folder name read
\* from that record, also when the name is the path, or a prefix of the path,
\* of a folder inserted before (the node is already there as a placeholder).
C25_RecordFolderFullPath ==
  (OnlyRecords /\ result # "fault")
    => \A i \in DOMAIN inserted : getFullPath(tree, inserted[i].id) = inserted[i].path

\* the same, for the records whose name is neither the path nor a prefix of
\* the path of a record inserted before
C25_FreshRecordFolderFullPath ==
  (OnlyRecords /\ result # "fault")
    => \A i \in DOMAIN inserted :
         (\A j \in 1..(i - 1) : ~IsPrefix(inserted[i].path, inserted[j].path))
           => getFullPath(tree, inserted[i].id) = inserted[i].path


(***************************************************************************)
(* Properties of the extractor's dequeue.                                  *)
(***************************************************************************)
\* C26: in every interleaving of extractAll, also after a cancellation, when
\* the controlling thread posts the buffer-count semaphore once or several
\* times, the extractor never takes the front of an empty queue: whenever it
\* is about to dequeue, the queue holds an item.
C26_NeverFrontOfEmptyQueue ==
  /\ extractPc # "fault"
  /\ extractPc = "pop" => buffers # <<>>

\* the extractor was woken by a post of the controlling thread, which has
\* posted twice, and the queue is empty
C26_WokenByControllingThread ==
  /\ extractPc = "intr"
  /\ buffers = <<>>
  /\ canceled /\ mainPosts >= 2


(***************************************************************************)
(* extract against extractAll.                                             *)
(***************************************************************************)
HasExtractedAll == ioPc = "extractedAll"

\* the bytes extract writes for a file of the archive as it was read
ExtractOut(file) == extract(disk.src, file, TRUE, extractedFile.heap, build).out

\* C27: for every file of a freshly read archive, of every variant and every
\* storage form (raw, zlib, LZ4 frame, texture chunks), the bytes extract
\* writes for the file are the bytes extractAll writes for it.
C27_ExtractAgreesWithExtractAll ==
  HasExtractedAll
    => \A k \in DOMAIN extractedFile.targets :
         extractedFile.targets[k].result = "written"
           => ExtractOut(extractedFile.targets[k].file) = extractedFile.targets[k].out

\* what extractAll writes is the start of what extract writes
C27_ExtractAllOutIsPrefix ==
  HasExtractedAll
    => \A k \in DOMAIN extractedFile.targets :
         extractedFile.targets[k].result = "written"
           => IsPrefix(extractedFile.targets[k].out,
                       ExtractOut(extractedFile.targets[k].file))


(***************************************************************************)
(* Archives read, files attached to folders of the tree, and the tree      *)
(* written.  Folder::addFile is declared outside the sources at hand        *)
(* (bsaarchive.h names it as the way to put a created file into a folder); *)
(* it is taken to append the file to the files of the folder.               *)
(***************************************************************************)
MaxAttached == 1

addFile(t, self, file) == [t EXCEPT ![self].m_Files = Append(@, file)]

AttachInit ==
  /\ \E g \in WholeGivens : disk = [src |-> g.bytes, out |-> <<>>, given |-> g]
  /\ testHashes = FALSE
  /\ build \in UBOutcomes
  /\ ioPc = "fresh" /\ header = <<>> /\ result = "none" /\ firstRead = <<>>
  /\ tree = EmptyTree /\ extractedFile = <<>> /\ inserted = <<>>
  /\ m_Type = TYPE_FALLOUT3
  /\ m_ArchiveFlags = FLAG_HASDIRNAMES + FLAG_HASFILENAMES
  /\ files = <<>> /\ srcData = <<>> /\ filesAtCall = <<>> /\ outDir = <<>>
  /\ overwrite = TRUE
  /\ PipelineIdle

\* the caller creates a file and adds it to a folder of the tree
AddFile ==
  /\ ioPc = "read"
  /\ result \notin {"fault", "escaped"}
  /\ Len(inserted) < MaxAttached
  /\ \E self \in DOMAIN tree, c \in BOOLEAN :
       /\ tree' = addFile(tree, self, createFile(<<110>>, <<115>>, c))
       /\ inserted' = Append(inserted, [op |-> "addFile", self |-> self,
                                        path |-> <<110>>, id |-> self])
  /\ UNCHANGED <<disk, m_Type, m_ArchiveFlags, testHashes, build, ioPc, header, result,
               firstRead, extractedFile, pipeVars>>

AttachNext == Read \/ AddFile \/ Write \/ Reread

AttachSpec == AttachInit /\ [][AttachNext]_vars

\* the counts of the written header, and the number of files the written
\* record of folder i announces: as many file records follow in its block
WrittenFolderCount == Field(disk.out, 16, 4)

WrittenFileCount == Field(disk.out, 20, 4)

RECURSIVE FileRecordsOf(_)
FileRecordsOf(n) ==
  IF n = 0 THEN 0 ELSE Field(disk.out, 36 + 16 * (n - 1) + 8, 4) + FileRecordsOf(n - 1)

\* C28: in the archive write produces, the file count of the header is the
\* number of file records emitted and the folder count is the number of
\* folder records emitted, for every tree, also one with files attached to
\* the root folder itself.
C28_HeaderCountsMatchRecords ==
  ioPc = "written"
    => /\ WrittenFolderCount = Len(WrittenFolders)
       /\ WrittenFileCount = FileRecordsOf(Len(WrittenFolders))

\* the same for the trees whose root holds no file
C28_CountsMatchWithoutRootFiles ==
  (ioPc = "written" /\ tree[1].m_Files = <<>>)
    => /\ WrittenFolderCount = Len(WrittenFolders)
       /\ WrittenFileCount = FileRecordsOf(Len(WrittenFolders))


(***************************************************************************)
(* extractAll on an archive without files.                                 *)
(***************************************************************************)
\* C29: extractAll on an archive whose tree holds no file returns ERROR_NONE
\* and does not fault: it takes no first file of the empty list, does not
\* index the list with the file count less one, and does not divide by the
\* file count.
C29_EmptyArchiveExtractsAll ==
  (HasExtractedAll /\ FilesUnder(tree, <<1>>) = <<>>) => result = "ERROR_NONE"


(***************************************************************************)
(* extractAll with its progress reports, on archives with and without      *)
(* files and in both builds.                                                *)
(***************************************************************************)
\* an archive whose tree holds no file
EmptyArchives ==
  { Archive(TYPE_FALLOUT3, FLAG_HASDIRNAMES + FLAG_HASFILENAMES, <<>>, <<>>) }

ProgressArchives ==
  EmptyArchives \cup PlainArchivesOf(1) \cup PlainArchivesOf(2) \cup PlainArchivesOf(3)
  \cup PrefixedArchivesOf(TYPE_FALLOUT3, 1)

ProgressInit ==
  /\ \E a \in ProgressArchives :
       /\ m_Type = a.type
       /\ m_ArchiveFlags = a.flags
       /\ files = a.files
       /\ srcData = a.data
       /\ filesAtCall = a.files
       /\ outDir = [i \in DOMAIN a.files |-> "absent"]
  /\ overwrite = TRUE
  /\ PipelineIdle
  /\ disk = <<>> /\ testHashes = FALSE /\ build \in UBOutcomes /\ ioPc = "fresh"
  /\ header = <<>>
  /\ result = "none" /\ tree = <<>> /\ firstRead = <<>> /\ extractedFile = <<>>
  /\ inserted = <<>>

ProgressSpec == ProgressInit /\ [][Next]_vars

\* the callback has been called
Reported == reported # -1

\* extractAll has returned and the callback never returned false
ReturnedUncancelled == mainPc = "returned" /\ ~canceled

PercentagesInRange == Reported => reported \in 0..100

PercentagesNonDecreasing == Reported => reported' >= reported

LastReportIsAll == ReturnedUncancelled => Reported /\ reported = 100

\* C30: the percentages passed to the progress callback during one
\* extractAll never decrease and lie in 0..100, and when extractAll returns
\* without the callback having returned false, the last call reported 100
C30_ProgressMonotoneToHundred ==
  /\ [](PercentagesInRange /\ LastReportIsAll)
  /\ [][PercentagesNonDecreasing]_vars

\* the same on the archives that hold at least one file
C30_ProgressOfFilledArchive ==
  /\ [](filesAtCall # <<>> => PercentagesInRange /\ LastReportIsAll)
  /\ [][filesAtCall # <<>> => PercentagesNonDecreasing]_vars

====
